---- MODULE Spec2Model ----
(***************************************************************************)
(* A model of the FAT12 engine of vtg_image_util (src/vtg_image_util/      *)
(* fat12.py): the FAT shadow with its dirty flag, the bit-packed entries,  *)
(* chain following, allocation and freeing, the directory engine and the   *)
(* file operations built on them, over an image of sectors.                *)
(*                                                                         *)
(* Scale.  The unit of sector content is one directory record (the code's  *)
(* DIR_ENTRY_SIZE bytes); file data is a sequence of such units, so a      *)
(* sector holds SECTOR_SIZE units and SECTOR_SIZE \div DIR_ENTRY_SIZE      *)
(* records.  FAT sectors hold SECTOR_SIZE bytes, packed exactly as the     *)
(* code packs them (two 12-bit entries in three bytes).                    *)
(***************************************************************************)
EXTENDS Integers, Sequences, FiniteSets, TLC

VARIABLES
    geo,        \* the volume's geometry (the abstract properties of FAT12Base)
    image,      \* the image file: sector number -> sector content
    fat_data,   \* FAT12Base._fat_data, the FAT shadow (a sequence of bytes)
    fat_dirty,  \* FAT12Base._fat_dirty
    readonly,   \* DiskImageFileMixin.readonly
    res,        \* the latest call: operation, arguments, outcome
    nops,       \* number of calls made so far
    walk,       \* follow_chain's loop: position, current_cluster, chain
    _file,      \* the file handle: "open", or "closed" for None
    _partitions \* V9KHardDiskImage._partitions: geometry and FAT shadow of each

vars == <<geo, image, fat_data, fat_dirty, readonly, res, nops, walk, _file, _partitions>>

-----------------------------------------------------------------------------
(* Bounds of the model *)

\* units per sector (SECTOR_SIZE of constants.py, scaled down)
SECTOR_SIZE == 2
\* sectors per cluster (SECTORS_PER_CLUSTER of constants.py, scaled down)
SECTORS_PER_CLUSTER == 2
\* data clusters of the volume (total_clusters, scaled down)
TOTAL_CLUSTERS == 4
\* sectors of the fixed root directory (dir_sectors, scaled down)
DIR_SECTORS == 1
\* file and directory names 1..NumNames
NumNames == 2
\* calls in one run
MaxOps == 3
\* nesting of delete_directory calls (the interpreter's recursion limit)
RecursionLimit == 4

-----------------------------------------------------------------------------
(* Program constants *)

DIR_ENTRY_SIZE == 1
FAT_FREE == 0
FAT_BAD == 4087
FAT_EOF_MIN == 4088
FAT_EOF_MAX == 4095
CHAIN_MAX == 4079
ATTR_READONLY == 1
ATTR_VOLUME == 8
ATTR_DIRECTORY == 16
ATTR_ARCHIVE == 32
MEDIA_DESCRIPTOR == 248

CLUSTER_SIZE == SECTOR_SIZE * SECTORS_PER_CLUSTER

Range(seq) == {seq[i] : i \in 1..Len(seq)}
ENTRIES_PER_SECTOR == SECTOR_SIZE \div DIR_ENTRY_SIZE

\* a & m for a in 0..63 and a one-bit mask m
BitSet(a, m) == (a \div m) % 2 = 1

Min(a, b) == IF a < b THEN a ELSE b

\* a local variable: the value v under the name the body F gives it
Bind(v, F(_)) == F(v)

-----------------------------------------------------------------------------
(* Directory records (models.py, DirectoryEntry).  b0 is the class of the  *)
(* first name byte: "00" (0x00), "E5" (0xE5) or "ch" (anything else); id   *)
(* stands for the 11 name and extension bytes the record was written with  *)
(* (marking a record deleted replaces only the first byte).                *)

ZeroCell == [b0 |-> "00", id |-> 0, attr |-> 0, fc |-> 0, size |-> 0]

\* DirectoryEntry(name, extension, attributes, first_cluster, file_size).to_bytes()
DirectoryEntry(n, a, c, s) == [b0 |-> "ch", id |-> n, attr |-> a, fc |-> c, size |-> s]

Names == 1..NumNames
\* two more file names, of files a volume holds before the calls start
FillerNames == {4, 5}
DOT == 20
DOTDOT == 21

is_end(e) == e.b0 = "00"
is_free(e) == e.b0 = "00" \/ e.b0 = "E5"
is_directory(e) == BitSet(e.attr, ATTR_DIRECTORY)
is_volume_label(e) == BitSet(e.attr, ATTR_VOLUME)
is_dot_entry(e) == e.b0 = "ch" /\ e.id \in {DOT, DOTDOT}
\* entry.name == name and entry.extension == ext, on the raw 11 bytes
NameIs(e, n) == e.b0 = "ch" /\ e.id = n

\* a unit of file data: the value 0 is a zero unit, a value v > 0 a unit
\* whose first byte is neither 0x00 nor 0xE5 and is no file-name character
DataByte(v) == IF v = 0 THEN ZeroCell
               ELSE [b0 |-> "ch", id |-> 100 + v, attr |-> 0, fc |-> 0, size |-> 0]

ZeroSector == [i \in 1..SECTOR_SIZE |-> ZeroCell]

-----------------------------------------------------------------------------
(* Geometry (floppy.py, V9KDiskImage._read_boot_sector): the boot sector,  *)
(* two FAT copies of f sectors, the root directory, the data area.         *)

Geometry(f) ==
    [fat_start |-> 1, fat_sectors |-> f, num_fat_copies |-> 2,
     dir_start |-> 1 + 2 * f, dir_sectors |-> DIR_SECTORS,
     data_start |-> 1 + 2 * f + DIR_SECTORS,
     total_clusters |-> TOTAL_CLUSTERS]

\* bytes one FAT copy needs to hold an entry for every cluster
FatBytesNeeded == ((TOTAL_CLUSTERS + 2) * 3 + 1) \div 2
\* a FAT that holds an entry for every cluster (the IBM PC formats)
FullFatSectors == (FatBytesNeeded + SECTOR_SIZE) \div SECTOR_SIZE
\* a FAT shorter than total_clusters entries (the Victor floppy formats:
\* 1214 clusters and one 512-byte FAT sector, 2378 and two)
ShortFatSectors == FullFatSectors - 2

_cluster_to_sector(cluster) ==
    geo.data_start + (cluster - 2) * SECTORS_PER_CLUSTER

FatSectorSet == geo.fat_start .. (geo.fat_start + geo.num_fat_copies * geo.fat_sectors - 1)

-----------------------------------------------------------------------------
(* Sector I/O (fat12.py, DiskImageFileMixin) *)

\* read_sector: reads past the end of the file are padded with zeros
read_sector(img, n) == IF n \in DOMAIN img THEN img[n] ELSE ZeroSector

\* the file after write_sector(n, data) on a writable image
PutSector(img, n, data) ==
    [x \in (DOMAIN img) \cup {n} |-> IF x = n THEN data ELSE read_sector(img, x)]

-----------------------------------------------------------------------------
(* FAT12 entries (fat12.py, get_fat_entry / set_fat_entry) *)

FatOffset(cluster) == cluster + (cluster \div 2)

\* whether the entry of the cluster lies inside the FAT shadow
InFat(fat, cluster) == FatOffset(cluster) + 1 < Len(fat)

FatWord(fat, cluster) ==
    fat[FatOffset(cluster) + 1] + fat[FatOffset(cluster) + 2] * 256

get_fat_entry(fat, cluster) ==
    IF ~InFat(fat, cluster) THEN FAT_FREE
    ELSE IF cluster % 2 = 0 THEN FatWord(fat, cluster) % 4096
    ELSE FatWord(fat, cluster) \div 16

\* a packing that writes the whole word and drops the neighbour's nibble
NewWordWhole(fat, cluster, value) ==
    IF cluster % 2 = 0 THEN value % 4096 ELSE (value % 4096) * 16

NewWord(fat, cluster, value) ==
    IF cluster % 2 = 0
    THEN (FatWord(fat, cluster) \div 4096) * 4096 + (value % 4096)
    ELSE (FatWord(fat, cluster) % 16) + (value % 4096) * 16

\* the shadow after a set_fat_entry that does not raise
set_fat_entry(fat, cluster, value) ==
    [fat EXCEPT ![FatOffset(cluster) + 1] = NewWord(fat, cluster, value) % 256,
                ![FatOffset(cluster) + 2] = (NewWord(fat, cluster, value) \div 256) % 256]

-----------------------------------------------------------------------------
(* Chains (fat12.py, follow_chain / find_free_cluster / allocate_chain /   *)
(* free_chain).  An operation's outcome is a record: err is "" or the name *)
(* of the exception raised, and the other fields are what it returned and  *)
(* the state it left.                                                      *)

RECURSIVE FollowFrom(_, _, _)
FollowFrom(fat, cluster, chain) ==
    IF ~(2 <= cluster /\ cluster <= CHAIN_MAX) THEN [err |-> "", chain |-> chain]
    ELSE IF \E i \in 1..Len(chain) : chain[i] = cluster
         THEN [err |-> "CorruptedDisk", chain |-> chain]
    ELSE FollowFrom(fat, get_fat_entry(fat, cluster), Append(chain, cluster))

follow_chain(fat, start_cluster) ==
    IF start_cluster = 0 THEN [err |-> "", chain |-> <<>>]
    ELSE FollowFrom(fat, start_cluster, <<>>)

ClusterRange == 2 .. (geo.total_clusters + 1)

\* the clusters the allocator takes for free, in ascending order
RECURSIVE FreeFrom(_, _, _)
FreeFrom(fat, cluster, want) ==
    IF cluster > geo.total_clusters + 1 \/ want = 0 THEN <<>>
    ELSE IF get_fat_entry(fat, cluster) = FAT_FREE
         THEN <<cluster>> \o FreeFrom(fat, cluster + 1, want - 1)
    ELSE FreeFrom(fat, cluster + 1, want)

\* find_free_cluster: 0 stands for None
find_free_cluster(fat) ==
    LET f == FreeFrom(fat, 2, 1) IN IF f = <<>> THEN 0 ELSE f[1]

\* a run of set_fat_entry calls; stops at the first that raises DiskError
RECURSIVE SetEntries(_, _, _)
SetEntries(fat, dirty, pairs) ==
    IF pairs = <<>> THEN [err |-> "", fat |-> fat, dirty |-> dirty]
    ELSE IF ~InFat(fat, pairs[1][1])
         THEN [err |-> "DiskError", fat |-> fat, dirty |-> dirty]
    ELSE SetEntries(set_fat_entry(fat, pairs[1][1], pairs[1][2]), TRUE, Tail(pairs))

\* an allocator that links the clusters it found from the highest down
allocate_chain_descending(fat, dirty, num_clusters) ==
    LET found == FreeFrom(fat, 2, num_clusters)
        n == Len(found)
        free_clusters == [i \in 1..n |-> found[n + 1 - i]]
        links == [i \in 1..n |->
                    <<free_clusters[i],
                      IF i < n THEN free_clusters[i + 1] ELSE FAT_EOF_MAX>>]
        s == SetEntries(fat, dirty, links)
    IN IF num_clusters = 0 THEN [err |-> "", fat |-> fat, dirty |-> dirty, chain |-> <<>>]
       ELSE IF n < num_clusters
       THEN [err |-> "DiskFull", fat |-> fat, dirty |-> dirty, chain |-> <<>>]
       ELSE [err |-> s.err, fat |-> s.fat, dirty |-> s.dirty, chain |-> free_clusters]

allocate_chain(fat, dirty, num_clusters) ==
    IF num_clusters = 0 THEN [err |-> "", fat |-> fat, dirty |-> dirty, chain |-> <<>>] ELSE
    Bind(FreeFrom(fat, 2, num_clusters), LAMBDA free_clusters :
    IF Len(free_clusters) < num_clusters
    THEN [err |-> "DiskFull", fat |-> fat, dirty |-> dirty, chain |-> <<>>] ELSE
    Bind(SetEntries(fat, dirty,
            [i \in 1..Len(free_clusters) |->
                <<free_clusters[i],
                  IF i < Len(free_clusters) THEN free_clusters[i + 1] ELSE FAT_EOF_MAX>>]),
         LAMBDA linked :
        [err |-> linked.err, fat |-> linked.fat, dirty |-> linked.dirty,
         chain |-> free_clusters]))

free_chain(fat, dirty, start_cluster) ==
    Bind(follow_chain(fat, start_cluster), LAMBDA f :
        IF f.err # "" THEN [err |-> f.err, fat |-> fat, dirty |-> dirty]
        ELSE SetEntries(fat, dirty, [i \in 1..Len(f.chain) |-> <<f.chain[i], FAT_FREE>>]))

-----------------------------------------------------------------------------
(* The state an operation works on: the image, the FAT shadow and its      *)
(* dirty flag, with err = "" until an exception is raised; a raised        *)
(* exception ends the operation and leaves the state as it was then.       *)

St(img, fat, dirty) ==
    [err |-> "", img |-> img, fat |-> fat, dirty |-> dirty, log |-> <<>>]

Raise(s, e) == [s EXCEPT !.err = e]

\* write_sector without the read-only test
write_sector_unguarded(s, n, data) ==
    IF s.err # "" THEN s ELSE [s EXCEPT !.img = PutSector(s.img, n, data), !.log = Append(s.log, n)]

\* write_sector (DiskImageFileMixin.write_sector)
write_sector(s, n, data) ==
    IF s.err # "" THEN s
    ELSE IF _file = "closed" \/ readonly THEN Raise(s, "DiskError")
    ELSE [s EXCEPT !.img = PutSector(s.img, n, data), !.log = Append(s.log, n)]

RECURSIVE write_sectors(_, _, _)
\* write_sector for each sector of secs in turn, data[i] to secs[i]
write_sectors(s, secs, data) ==
    IF secs = <<>> \/ s.err # "" THEN s
    ELSE write_sectors(write_sector(s, secs[1], data[1]), Tail(secs), Tail(data))

\* the shadow and flag of a chain operation's outcome put into the state
WithFat(s, r) == [s EXCEPT !.err = r.err, !.fat = r.fat, !.dirty = r.dirty]

\* _write_fat: the shadow written to every FAT copy
FatSectorData(fat, i) == [k \in 1..SECTOR_SIZE |-> fat[(i - 1) * SECTOR_SIZE + k]]

\* the sectors of the first FAT copy alone
FatTargetsFirst == [k \in 1..geo.fat_sectors |-> geo.fat_start + k - 1]

FatTargets ==
    [k \in 1..(geo.num_fat_copies * geo.fat_sectors) |-> geo.fat_start + k - 1]

FatPayload(fat) ==
    [k \in 1..(geo.num_fat_copies * geo.fat_sectors) |->
        FatSectorData(fat, ((k - 1) % geo.fat_sectors) + 1)]

_write_fat(s) ==
    IF s.err # "" \/ ~s.dirty THEN s
    ELSE Bind(write_sectors(s, FatTargets, FatPayload(s.fat)), LAMBDA w :
            IF w.err # "" THEN w ELSE [w EXCEPT !.dirty = FALSE])

\* _load_fat: the shadow read from the first FAT copy
_load_fat(img) ==
    [k \in 1..(geo.fat_sectors * SECTOR_SIZE) |->
        read_sector(img, geo.fat_start + ((k - 1) \div SECTOR_SIZE))[((k - 1) % SECTOR_SIZE) + 1]]

-----------------------------------------------------------------------------
(* The directory engine (fat12.py, read_root_directory / read_subdirectory *)
(* / resolve_path / _find_free_dir_slot / _write_dir_entry /               *)
(* _delete_entry_by_name).  ROOT stands for dir_cluster = None.            *)

ROOT == -1

ClusterSectors(chain) ==
    [k \in 1..(Len(chain) * SECTORS_PER_CLUSTER) |->
        _cluster_to_sector(chain[((k - 1) \div SECTORS_PER_CLUSTER) + 1])
            + ((k - 1) % SECTORS_PER_CLUSTER)]

\* the sectors of a directory in reading order
DirSectorList(fat, dc) ==
    IF dc = ROOT
    THEN [err |-> "", secs |-> [i \in 1..geo.dir_sectors |-> geo.dir_start + i - 1]]
    ELSE Bind(follow_chain(fat, dc), LAMBDA f :
            [err |-> f.err, secs |-> ClusterSectors(f.chain)])

\* the records of those sectors, each with its place <<sector, index>>
SlotPlace(secs, k) ==
    <<secs[((k - 1) \div ENTRIES_PER_SECTOR) + 1], ((k - 1) % ENTRIES_PER_SECTOR) + 1>>

SlotCell(img, secs, k) == read_sector(img, SlotPlace(secs, k)[1])[SlotPlace(secs, k)[2]]

NumSlots(secs) == Len(secs) * ENTRIES_PER_SECTOR

RECURSIVE Listed(_, _, _)
\* records up to the first 0x00 record, without the free and the label records
Listed(img, secs, k) ==
    IF k > NumSlots(secs) \/ is_end(SlotCell(img, secs, k)) THEN <<>>
    ELSE (IF ~is_free(SlotCell(img, secs, k)) /\ ~is_volume_label(SlotCell(img, secs, k))
          THEN <<SlotCell(img, secs, k)>> ELSE <<>>)
         \o Listed(img, secs, k + 1)

read_directory(img, fat, dc) ==
    Bind(DirSectorList(fat, dc), LAMBDA d :
        IF d.err # "" THEN [err |-> d.err, entries |-> <<>>]
        ELSE [err |-> "", entries |-> Listed(img, d.secs, 1)])

\* the first listed entry with the name: 0 when there is none
FirstNamed(entries, n) ==
    IF \E i \in 1..Len(entries) : NameIs(entries[i], n)
    THEN CHOOSE i \in 1..Len(entries) :
            NameIs(entries[i], n) /\ \A j \in 1..(i - 1) : ~NameIs(entries[j], n)
    ELSE 0

RECURSIVE ResolveFrom(_, _, _, _, _)
ResolveFrom(img, fat, path, i, current_cluster) ==
    Bind(read_directory(img, fat, current_cluster), LAMBDA r :
    IF r.err # "" THEN [err |-> r.err, dir |-> ROOT, has |-> FALSE, entry |-> ZeroCell] ELSE
    Bind(FirstNamed(r.entries, path[i]), LAMBDA k :
    IF k = 0 THEN [err |-> "NotFound", dir |-> ROOT, has |-> FALSE, entry |-> ZeroCell] ELSE
    Bind(r.entries[k], LAMBDA found :
    IF i = Len(path)
    THEN IF is_directory(found)
         THEN [err |-> "", dir |-> found.fc, has |-> FALSE, entry |-> ZeroCell]
         ELSE [err |-> "", dir |-> current_cluster, has |-> TRUE, entry |-> found]
    ELSE IF ~is_directory(found)
    THEN [err |-> "NotFound", dir |-> ROOT, has |-> FALSE, entry |-> ZeroCell]
    ELSE ResolveFrom(img, fat, path, i + 1, found.fc))))

\* resolve_path: (directory_cluster, entry), has = FALSE for entry = None
resolve_path(img, fat, path) ==
    IF path = <<>> THEN [err |-> "", dir |-> ROOT, has |-> FALSE, entry |-> ZeroCell]
    ELSE ResolveFrom(img, fat, path, 1, ROOT)

\* the first slot of the directory whose record satisfies P: 0 when none
FirstSlot(img, secs, P(_)) ==
    IF \E k \in 1..NumSlots(secs) : P(SlotCell(img, secs, k))
    THEN CHOOSE k \in 1..NumSlots(secs) :
            P(SlotCell(img, secs, k))
            /\ \A j \in 1..(k - 1) : ~P(SlotCell(img, secs, j))
    ELSE 0

\* the sector with record j replaced, as _write_dir_entry rewrites it
PutCell(img, place, cell) ==
    [read_sector(img, place[1]) EXCEPT ![place[2]] = cell]

\* _write_dir_entry(location, entry, is_root)
_write_dir_entry(s, place, entry) ==
    IF s.err # "" THEN s ELSE write_sector(s, place[1], PutCell(s.img, place, entry))

\* _find_free_dir_slot: the state it leaves and the place it returns
_find_free_dir_slot(s, dc) ==
    IF s.err # "" THEN [s |-> s, place |-> <<0, 0>>] ELSE
    Bind(DirSectorList(s.fat, dc), LAMBDA d :
    IF d.err # "" THEN [s |-> Raise(s, d.err), place |-> <<0, 0>>] ELSE
    Bind(FirstSlot(s.img, d.secs, is_free), LAMBDA k :
    IF k # 0 THEN [s |-> s, place |-> SlotPlace(d.secs, k)]
    ELSE IF dc = ROOT THEN [s |-> Raise(s, "DirectoryFull"), place |-> <<0, 0>>] ELSE
    Bind(find_free_cluster(s.fat), LAMBDA new_cluster :
    IF new_cluster = 0 THEN [s |-> Raise(s, "DiskFull"), place |-> <<0, 0>>] ELSE
    Bind(follow_chain(s.fat, dc), LAMBDA f :
    Bind(IF f.chain # <<>> THEN f.chain[Len(f.chain)] ELSE dc, LAMBDA last_cluster :
    Bind(WithFat(s, SetEntries(s.fat, s.dirty,
            <<<<last_cluster, new_cluster>>, <<new_cluster, FAT_EOF_MAX>>>>)), LAMBDA linked :
        [s |-> write_sectors(linked, ClusterSectors(<<new_cluster>>),
                             [i \in 1..SECTORS_PER_CLUSTER |-> ZeroSector]),
         place |-> <<_cluster_to_sector(new_cluster), 1>>]))))))

\* the same with 0x00 written into the record in the place of 0xE5
_delete_entry_by_name_zero(s, dc, n) ==
    IF s.err # "" THEN s ELSE
    Bind(DirSectorList(s.fat, dc), LAMBDA d :
    IF d.err # "" THEN Raise(s, d.err) ELSE
    Bind(FirstSlot(s.img, d.secs, LAMBDA e : NameIs(e, n)), LAMBDA k :
    IF k = 0 THEN s ELSE
    Bind(SlotPlace(d.secs, k), LAMBDA place :
        write_sector(s, place[1],
            PutCell(s.img, place, [SlotCell(s.img, d.secs, k) EXCEPT !.b0 = "00"])))))

\* _delete_entry_by_name: the first record carrying the 11 name bytes gets 0xE5
_delete_entry_by_name(s, dc, n) ==
    IF s.err # "" THEN s ELSE
    Bind(DirSectorList(s.fat, dc), LAMBDA d :
    IF d.err # "" THEN Raise(s, d.err) ELSE
    Bind(FirstSlot(s.img, d.secs, LAMBDA e : NameIs(e, n)), LAMBDA k :
    IF k = 0 THEN s ELSE
    Bind(SlotPlace(d.secs, k), LAMBDA place :
        write_sector(s, place[1],
            PutCell(s.img, place, [SlotCell(s.img, d.secs, k) EXCEPT !.b0 = "E5"])))))

-----------------------------------------------------------------------------
(* File operations (fat12.py, read_file / write_file / delete_file /       *)
(* set_attributes / rename_entry / create_directory / delete_directory).   *)
(* A path is a non-empty sequence of names that pass validate_filename.    *)

Front(path) == SubSeq(path, 1, Len(path) - 1)
Last(path) == path[Len(path)]

\* the concatenated units of the sectors secs
SectorUnits(img, secs) ==
    [k \in 1..(Len(secs) * SECTOR_SIZE) |->
        read_sector(img, secs[((k - 1) \div SECTOR_SIZE) + 1])[((k - 1) % SECTOR_SIZE) + 1]]

read_file(img, fat, path) ==
    Bind(resolve_path(img, fat, path), LAMBDA r :
    IF r.err # "" THEN [err |-> r.err, data |-> <<>>]
    ELSE IF ~r.has THEN [err |-> "NotFound", data |-> <<>>]
    ELSE IF is_directory(r.entry) THEN [err |-> "NotFound", data |-> <<>>]
    ELSE IF r.entry.size = 0 THEN [err |-> "", data |-> <<>>] ELSE
    Bind(follow_chain(fat, r.entry.fc), LAMBDA f :
    IF f.err # "" THEN [err |-> f.err, data |-> <<>>] ELSE
    Bind(SectorUnits(img, ClusterSectors(f.chain)), LAMBDA units :
        [err |-> "", data |-> SubSeq(units, 1, Min(r.entry.size, Len(units)))])))

\* the directory a mutation works in: "Find target directory" of write_file
\* and create_directory, which refuse a path that ends at a regular file
TargetDirChecked(img, fat, dir_path) ==
    IF dir_path = <<>> THEN [err |-> "", dir |-> ROOT] ELSE
    Bind(resolve_path(img, fat, dir_path), LAMBDA r :
        IF r.err # "" THEN [err |-> r.err, dir |-> ROOT]
        ELSE IF r.has /\ ~is_directory(r.entry) THEN [err |-> "NotFound", dir |-> ROOT]
        ELSE [err |-> "", dir |-> r.dir])

\* "Find target directory" of delete_file, set_attributes, rename_entry and
\* delete_directory, which keep only resolve_path's directory cluster
TargetDir(img, fat, dir_path) ==
    IF dir_path = <<>> THEN [err |-> "", dir |-> ROOT] ELSE
    Bind(resolve_path(img, fat, dir_path), LAMBDA r : [err |-> r.err, dir |-> r.dir])

\* the sector written for the data at offset off: the chunk, zero-padded
Chunk(data, off) ==
    [k \in 1..SECTOR_SIZE |->
        IF off + k <= Len(data) THEN DataByte(data[off + k]) ELSE ZeroCell]

\* the clusters a length fills whole
ClustersFilled(len) == len \div CLUSTER_SIZE

ClustersFor(len) == (len + CLUSTER_SIZE - 1) \div CLUSTER_SIZE

\* write_file, "Check if file already exists": an existing file is deleted
DeleteExisting(s, dc, n) ==
    Bind(read_directory(s.img, s.fat, dc), LAMBDA r :
    IF r.err # "" THEN Raise(s, r.err) ELSE
    Bind(FirstNamed(r.entries, n), LAMBDA k :
    IF k = 0 THEN s
    ELSE IF is_directory(r.entries[k]) THEN Raise(s, "DiskError")
    ELSE _delete_entry_by_name(
            WithFat(s, free_chain(s.fat, s.dirty, r.entries[k].fc)), dc, n)))

\* write_file from "Calculate clusters needed" on
WriteNew(s, dc, n, data) ==
    IF s.err # "" THEN s ELSE
    Bind(allocate_chain(s.fat, s.dirty, ClustersFor(Len(data))), LAMBDA a :
    Bind(ClusterSectors(a.chain), LAMBDA secs :
    Bind(_find_free_dir_slot(
            write_sectors(WithFat(s, a), secs,
                [k \in 1..Len(secs) |-> Chunk(data, (k - 1) * SECTOR_SIZE)]), dc),
         LAMBDA slot :
        _write_fat(_write_dir_entry(slot.s, slot.place,
            DirectoryEntry(n, ATTR_ARCHIVE,
                           IF a.chain # <<>> THEN a.chain[1] ELSE 0, Len(data)))))))

write_file(s, path, data) ==
    Bind(TargetDirChecked(s.img, s.fat, Front(path)), LAMBDA t :
        IF t.err # "" THEN Raise(s, t.err)
        ELSE WriteNew(DeleteExisting(s, t.dir, Last(path)), t.dir, Last(path), data))

delete_file(s, path) ==
    Bind(TargetDir(s.img, s.fat, Front(path)), LAMBDA t :
    IF t.err # "" THEN Raise(s, t.err) ELSE
    Bind(read_directory(s.img, s.fat, t.dir), LAMBDA r :
    IF r.err # "" THEN Raise(s, r.err) ELSE
    Bind(FirstNamed(r.entries, Last(path)), LAMBDA k :
    IF k = 0 THEN Raise(s, "NotFound") ELSE
    Bind(r.entries[k], LAMBDA target :
    IF is_directory(target) THEN Raise(s, "DiskError")
    ELSE _write_fat(_delete_entry_by_name(
            IF target.fc > 0
            THEN WithFat(s, free_chain(s.fat, s.dirty, target.fc)) ELSE s,
            t.dir, Last(path)))))))

\* (old_attrs & ATTR_DIRECTORY) | (attributes & ~ATTR_DIRECTORY)
NewAttrs(old_attrs, attributes) ==
    (IF BitSet(old_attrs, ATTR_DIRECTORY) THEN ATTR_DIRECTORY ELSE 0)
    + (attributes - (IF BitSet(attributes, ATTR_DIRECTORY) THEN ATTR_DIRECTORY ELSE 0))

\* _update_entry_attributes: the first record carrying the name bytes
_update_entry_attributes(s, dc, n, attributes) ==
    Bind(DirSectorList(s.fat, dc), LAMBDA d :
    IF d.err # "" THEN Raise(s, d.err) ELSE
    Bind(FirstSlot(s.img, d.secs, LAMBDA e : NameIs(e, n)), LAMBDA k :
    IF k = 0 THEN Raise(s, "NotFound") ELSE
    Bind(SlotCell(s.img, d.secs, k), LAMBDA old :
        _write_dir_entry(s, SlotPlace(d.secs, k),
            [old EXCEPT !.attr = NewAttrs(old.attr, attributes)]))))

set_attributes(s, path, attributes) ==
    Bind(TargetDir(s.img, s.fat, Front(path)), LAMBDA t :
        IF t.err # "" THEN Raise(s, t.err)
        ELSE _update_entry_attributes(s, t.dir, Last(path), attributes))

\* _rename_entry_in_dir: the first record carrying the old name bytes
_rename_entry_in_dir(s, dc, old_name, new_name) ==
    Bind(DirSectorList(s.fat, dc), LAMBDA d :
    IF d.err # "" THEN Raise(s, d.err) ELSE
    Bind(FirstSlot(s.img, d.secs, LAMBDA e : NameIs(e, old_name)), LAMBDA k :
    IF k = 0 THEN Raise(s, "NotFound") ELSE
    Bind(SlotCell(s.img, d.secs, k), LAMBDA old :
        _write_dir_entry(s, SlotPlace(d.secs, k), [old EXCEPT !.id = new_name]))))

rename_entry(s, path, new_name) ==
    Bind(TargetDir(s.img, s.fat, Front(path)), LAMBDA t :
    IF t.err # "" THEN Raise(s, t.err)
    ELSE IF Last(path) = new_name
    THEN _rename_entry_in_dir(s, t.dir, Last(path), new_name) ELSE
    Bind(read_directory(s.img, s.fat, t.dir), LAMBDA r :
    IF r.err # "" THEN Raise(s, r.err)
    ELSE IF FirstNamed(r.entries, new_name) # 0 THEN Raise(s, "DiskError")
    ELSE _rename_entry_in_dir(s, t.dir, Last(path), new_name)))

\* first_cluster of the '..' entry: parent_cluster or 0
DotDotCluster(parent_cluster) == IF parent_cluster = ROOT THEN 0 ELSE parent_cluster

\* create_directory from "Allocate a cluster for the new directory" on
MakeDirectory(s, parent_cluster, n) ==
    Bind(find_free_cluster(s.fat), LAMBDA new_cluster :
    IF new_cluster = 0 THEN Raise(s, "DiskFull") ELSE
    Bind(ClusterSectors(<<new_cluster>>), LAMBDA secs :
    Bind(write_sectors(
            WithFat(s, SetEntries(s.fat, s.dirty, <<<<new_cluster, FAT_EOF_MAX>>>>)),
            secs, [i \in 1..Len(secs) |-> ZeroSector]), LAMBDA zeroed :
    Bind([i \in 1..SECTOR_SIZE |->
            IF i = 1 THEN DirectoryEntry(DOT, ATTR_DIRECTORY, new_cluster, 0)
            ELSE IF i = 2
            THEN DirectoryEntry(DOTDOT, ATTR_DIRECTORY, DotDotCluster(parent_cluster), 0)
            ELSE ZeroCell], LAMBDA sector_data :
    Bind(_find_free_dir_slot(write_sector(zeroed, secs[1], sector_data), parent_cluster),
         LAMBDA slot :
        _write_fat(_write_dir_entry(slot.s, slot.place,
            DirectoryEntry(n, ATTR_DIRECTORY, new_cluster, 0))))))))

\* the same without the return for a directory that exists already
create_directory_again(s, path) ==
    Bind(TargetDirChecked(s.img, s.fat, Front(path)), LAMBDA t :
    IF t.err # "" THEN Raise(s, t.err) ELSE
    Bind(read_directory(s.img, s.fat, t.dir), LAMBDA r :
    IF r.err # "" THEN Raise(s, r.err) ELSE
    Bind(FirstNamed(r.entries, Last(path)), LAMBDA k :
    IF k # 0 /\ ~is_directory(r.entries[k]) THEN Raise(s, "DiskError")
    ELSE MakeDirectory(s, t.dir, Last(path)))))

create_directory(s, path) ==
    Bind(TargetDirChecked(s.img, s.fat, Front(path)), LAMBDA t :
    IF t.err # "" THEN Raise(s, t.err) ELSE
    Bind(read_directory(s.img, s.fat, t.dir), LAMBDA r :
    IF r.err # "" THEN Raise(s, r.err) ELSE
    Bind(FirstNamed(r.entries, Last(path)), LAMBDA k :
    IF k # 0 /\ is_directory(r.entries[k]) THEN s
    ELSE IF k # 0 THEN Raise(s, "DiskError")
    ELSE MakeDirectory(s, t.dir, Last(path)))))

\* validate_filename(entry.full_name) of a listed entry succeeds for the
\* names written by validate_filename and raises for any other bytes
ValidName(id) == id \in Names \cup FillerNames

\* every entry taken for '.' or '..'
NonDotNone(entries) == <<>>

\* the entries of a listing that are not '.' or '..'
RECURSIVE NonDot(_)
NonDot(entries) ==
    IF entries = <<>> THEN <<>>
    ELSE (IF is_dot_entry(entries[1]) THEN <<>> ELSE <<entries[1]>>) \o NonDot(Tail(entries))

RECURSIVE delete_directory(_, _, _)
\* the entries of the directory left as they are
DeleteChildrenSkipped(s, path, entries) == s

RECURSIVE DeleteChildren(_, _, _)

\* delete_directory, "Delete contents recursively"
DeleteChildren(s, path, entries) ==
    IF entries = <<>> \/ s.err # "" THEN s
    ELSE IF ~ValidName(entries[1].id) THEN Raise(s, "InvalidFilename")
    ELSE DeleteChildren(
            IF is_directory(entries[1])
            THEN delete_directory(s, Append(path, entries[1].id), TRUE)
            ELSE delete_file(s, Append(path, entries[1].id)),
            path, Tail(entries))

delete_directory(s, path, recursive) ==
    IF Len(path) > RecursionLimit THEN Raise(s, "RecursionError") ELSE
    Bind(TargetDir(s.img, s.fat, Front(path)), LAMBDA t :
    IF t.err # "" THEN Raise(s, t.err) ELSE
    Bind(read_directory(s.img, s.fat, t.dir), LAMBDA r :
    IF r.err # "" THEN Raise(s, r.err) ELSE
    Bind(FirstNamed(r.entries, Last(path)), LAMBDA k :
    IF k = 0 THEN Raise(s, "NotFound") ELSE
    Bind(r.entries[k], LAMBDA target :
    IF ~is_directory(target) THEN Raise(s, "DiskError") ELSE
    Bind(read_directory(s.img, s.fat, target.fc), LAMBDA c :
    IF c.err # "" THEN Raise(s, c.err) ELSE
    Bind(NonDot(c.entries), LAMBDA non_dot_entries :
    IF non_dot_entries # <<>> /\ ~recursive THEN Raise(s, "DiskError") ELSE
    Bind(IF recursive THEN DeleteChildren(s, path, non_dot_entries) ELSE s, LAMBDA emptied :
        _write_fat(_delete_entry_by_name(
            IF emptied.err = "" /\ target.fc > 0
            THEN WithFat(emptied, free_chain(emptied.fat, emptied.dirty, target.fc))
            ELSE emptied,
            t.dir, Last(path))))))))))

\* flush (FAT12Base.flush, DiskImageFileMixin.flush)
flush(s) == IF s.dirty THEN _write_fat(s) ELSE s

-----------------------------------------------------------------------------
(* A freshly created image (creator.py, create_victor_floppy): both FAT    *)
(* copies hold the media descriptor and 0xFF 0xFF, the root directory is   *)
(* zero but for an optional volume label in its first record.              *)

\* _create_fat12, cut to the sectors of one FAT copy
_create_fat12(g) ==
    [k \in 1..(g.fat_sectors * SECTOR_SIZE) |->
        IF k = 1 THEN MEDIA_DESCRIPTOR ELSE IF k \in {2, 3} THEN 255 ELSE 0]

\* _create_volume_label_entry(label): the 11 label bytes and ATTR_VOLUME
_create_volume_label_entry(label) ==
    [b0 |-> "ch", id |-> label, attr |-> ATTR_VOLUME, fc |-> 0, size |-> 0]

\* label = 0 stands for volume_label = None
create_victor_floppy(g, label) ==
    [n \in 0..(g.data_start + g.total_clusters * SECTORS_PER_CLUSTER - 1) |->
        IF n >= g.fat_start /\ n < g.fat_start + g.num_fat_copies * g.fat_sectors
        THEN [k \in 1..SECTOR_SIZE |->
                _create_fat12(g)[((n - g.fat_start) % g.fat_sectors) * SECTOR_SIZE + k]]
        ELSE IF n = g.dir_start /\ label # 0
        THEN [k \in 1..SECTOR_SIZE |->
                IF k = 1 THEN _create_volume_label_entry(label) ELSE ZeroCell]
        ELSE ZeroSector]

-----------------------------------------------------------------------------
(* Inputs *)

\* paths of one component, and of two below the first name
Paths == {<<n>> : n \in Names} \cup {<<1, n>> : n \in Names \ {1}}

\* the lengths 0, 1, cluster_size - 1, cluster_size, cluster_size + 1 and
\* more than two clusters
DataLengths == {0, 1, CLUSTER_SIZE - 1, CLUSTER_SIZE, CLUSTER_SIZE + 1, 2 * CLUSTER_SIZE + 1}

\* a byte string of the length, of non-zero bytes that change with the offset
DataOf(len) == [i \in 1..len |-> 1 + (i % 2)]

\* data as the units a sector holds
Units(data) == [i \in 1..Len(data) |-> DataByte(data[i])]

AttrInputs == {ATTR_READONLY, ATTR_DIRECTORY}

NoCall ==
    [op |-> "none", path |-> <<>>, data |-> <<>>, arg |-> 0, err |-> "", out |-> <<>>]

\* follow_chain is not running
NoWalk == [pc |-> "idle", start |-> 0, cluster |-> 0, chain |-> <<>>]

Call(op, path, data, arg, err) ==
    [op |-> op, path |-> path, data |-> data, arg |-> arg, err |-> err, out |-> <<>>]

-----------------------------------------------------------------------------
(* The state machine: one action per call of the volume's interface *)

Init ==
    /\ geo \in {Geometry(FullFatSectors), Geometry(ShortFatSectors)}
    /\ \E label \in {0, 1} : image = create_victor_floppy(geo, label)
    /\ fat_data = _load_fat(image)
    /\ fat_dirty = FALSE
    /\ readonly = FALSE
    /\ res = NoCall
    /\ nops = 0
    /\ walk = NoWalk
    /\ _file = "open"
    /\ _partitions = <<>>

Now == St(image, fat_data, fat_dirty)

\* the state a call leaves, whether it returned or raised
Done(s, call) ==
    /\ nops < MaxOps
    /\ image' = s.img
    /\ fat_data' = s.fat
    /\ fat_dirty' = s.dirty
    /\ res' = [call EXCEPT !.err = s.err]
    /\ nops' = nops + 1
    /\ UNCHANGED <<_file, _partitions, geo, readonly, walk>>

WriteFile ==
    \E path \in Paths, len \in DataLengths :
        Done(write_file(Now, path, DataOf(len)),
             Call("write_file", path, DataOf(len), 0, ""))

DeleteFile ==
    \E path \in Paths :
        Done(delete_file(Now, path), Call("delete_file", path, <<>>, 0, ""))

CreateDirectory ==
    \E path \in Paths :
        Done(create_directory(Now, path), Call("create_directory", path, <<>>, 0, ""))

DeleteDirectory ==
    \E path \in Paths, recursive \in BOOLEAN :
        Done(delete_directory(Now, path, recursive),
             Call("delete_directory", path, <<>>, IF recursive THEN 1 ELSE 0, ""))

SetAttributes ==
    \E path \in Paths, attributes \in AttrInputs :
        Done(set_attributes(Now, path, attributes),
             Call("set_attributes", path, <<>>, attributes, ""))

RenameEntry ==
    \E path \in Paths, new_name \in Names :
        Done(rename_entry(Now, path, new_name),
             Call("rename_entry", path, <<>>, new_name, ""))

Flush ==
    Done(flush(Now), Call("flush", <<>>, <<>>, 0, ""))

Next ==
    \/ WriteFile
    \/ DeleteFile
    \/ CreateDirectory
    \/ DeleteDirectory
    \/ SetAttributes
    \/ RenameEntry
    \/ Flush

Spec == Init /\ [][Next]_vars

\* a label that is the name of no file the calls use
OtherLabel == 3

\* create_ibm_floppy lays the image out as create_victor_floppy does
create_ibm_floppy(g, label) == create_victor_floppy(g, label)

\* a blank IBM PC floppy: its FAT holds an entry for every cluster
InitPC ==
    /\ geo = Geometry(FullFatSectors)
    /\ \E label \in {0, OtherLabel} : image = create_ibm_floppy(geo, label)
    /\ fat_data = _load_fat(image)
    /\ fat_dirty = FALSE
    /\ readonly = FALSE
    /\ res = NoCall
    /\ nops = 0
    /\ walk = NoWalk
    /\ _file = "open"
    /\ _partitions = <<>>

SpecPC == InitPC /\ [][Next]_vars

-----------------------------------------------------------------------------
(* A volume that first gets the directory 1 with up to two files in it, by *)
(* create_directory, write_file and delete_file calls on a blank IBM PC    *)
(* floppy.  With two live files the directory's one cluster is full, and   *)
(* with a label the root directory is.                                     *)

FillLengths == {0, 1, CLUSTER_SIZE + 1}

\* the files written into the directory, then those of dels deleted again
Filled(s, lens, dels) ==
    Bind(create_directory(s, <<1>>), LAMBDA made :
    Bind(IF Len(lens) >= 1 THEN write_file(made, <<1, 4>>, DataOf(lens[1])) ELSE made,
         LAMBDA one :
    Bind(IF Len(lens) >= 2 THEN write_file(one, <<1, 5>>, DataOf(lens[2])) ELSE one,
         LAMBDA two :
    Bind(IF 4 \in dels THEN delete_file(two, <<1, 4>>) ELSE two, LAMBDA three :
         IF 5 \in dels THEN delete_file(three, <<1, 5>>) ELSE three))))

\* the calls that fill the volume, none of which raised
Fill ==
    /\ nops = 0
    /\ \E n \in 0..2 : \E lens \in [1..n -> FillLengths], dels \in SUBSET {4, 5} :
          /\ \A d \in dels : d - 3 <= n
          /\ Bind(Filled(Now, lens, dels), LAMBDA s :
                /\ s.err = ""
                /\ image' = s.img
                /\ fat_data' = s.fat
                /\ fat_dirty' = s.dirty)
    /\ res' = Call("fill", <<1>>, <<>>, 0, "")
    /\ nops' = 1
    /\ UNCHANGED <<_file, _partitions, geo, readonly, walk>>

NextDir ==
    \/ Fill
    \/ nops > 0 /\ Next

SpecDir == InitPC /\ [][NextDir]_vars

-----------------------------------------------------------------------------
(* The filled volume opened again read-only (DiskImageFileMixin.__init__   *)
(* with readonly = True): the FAT shadow is loaded from the image, and     *)
(* every call is made on the read-only handle.                             *)

OpenReadOnly ==
    /\ nops = 1 /\ ~readonly
    /\ readonly' = TRUE
    /\ fat_data' = _load_fat(image)
    /\ fat_dirty' = FALSE
    /\ res' = Call("open", <<>>, <<>>, 0, "")
    /\ UNCHANGED <<_file, _partitions, geo, image, nops, walk>>

\* close(): flush(), then the handle is released and takes no further call
Close ==
    /\ nops < MaxOps
    /\ Bind(flush(Now), LAMBDA s :
          /\ image' = s.img
          /\ fat_data' = s.fat
          /\ fat_dirty' = s.dirty
          /\ res' = Call("close", <<>>, <<>>, 0, s.err)
          /\ _file' = IF s.err = "" THEN "closed" ELSE _file)
    /\ nops' = MaxOps
    /\ UNCHANGED <<_partitions, geo, readonly, walk>>

NextRO ==
    \/ Fill
    \/ OpenReadOnly
    \/ readonly /\ Next
    \/ readonly /\ Close

SpecRO == InitPC /\ [][NextRO]_vars

\* the read-write volume with close() among the calls
NextClose ==
    \/ Next
    \/ Close

SpecClose == Init /\ [][NextClose]_vars

-----------------------------------------------------------------------------
(* The hard disk (harddisk.py): V9KHardDiskImage holds the file and a list *)
(* of V9KPartition objects, each a FAT12 volume of its own inside the      *)
(* file, with its own geometry, FAT shadow and dirty flag.  The variables  *)
(* geo, fat_data and fat_dirty are those of the partition the next call is *)
(* made on; _partitions keeps those of every partition.                    *)

\* partitions on the disk
NumPartitions == 2

\* volume_capacity of each virtual volume label: the volume's sectors
VolumeCapacity == 1 + 2 * FullFatSectors + DIR_SECTORS + TOTAL_CLUSTERS * SECTORS_PER_CLUSTER

\* volume_start of the partition: the volumes follow the disk label
VolumeStart(i) == 1 + (i - 1) * VolumeCapacity

\* V9KPartition.__init__ with the directory and the data area placed after
\* the first volume's FAT instead of the volume's own
V9KPartitionFirstVolume(volume_start, volume_capacity, f) ==
    [fat_start |-> volume_start + 1, fat_sectors |-> f, num_fat_copies |-> 2,
     dir_start |-> 2 + 2 * f, dir_sectors |-> DIR_SECTORS,
     data_start |-> 2 + 2 * f + DIR_SECTORS,
     total_clusters |->
        (volume_capacity - (1 + 2 * f + DIR_SECTORS)) \div SECTORS_PER_CLUSTER]

\* V9KPartition.__init__: the layout inside the volume
V9KPartition(volume_start, volume_capacity, f) ==
    [fat_start |-> volume_start + 1, fat_sectors |-> f, num_fat_copies |-> 2,
     dir_start |-> volume_start + 1 + 2 * f, dir_sectors |-> DIR_SECTORS,
     data_start |-> volume_start + 1 + 2 * f + DIR_SECTORS,
     total_clusters |->
        (volume_capacity - (1 + 2 * f + DIR_SECTORS)) \div SECTORS_PER_CLUSTER]

\* the sectors of the volume
VolumeRange(volume_start) == volume_start .. (volume_start + VolumeCapacity - 1)

\* an image of freshly formatted volumes
HardDiskImage(n) ==
    [x \in 0..(n * VolumeCapacity) |->
        IF x > 0 /\ ((x - 1) % VolumeCapacity) \in 1..(2 * FullFatSectors)
        THEN [k \in 1..SECTOR_SIZE |->
                _create_fat12(Geometry(FullFatSectors))
                    [((((x - 1) % VolumeCapacity) - 1) % FullFatSectors) * SECTOR_SIZE + k]]
        ELSE ZeroSector]

\* _load_partitions: one V9KPartition per volume, its FAT shadow loaded
_load_partitions(n) ==
    [i \in 1..n |->
        [volume_start |-> VolumeStart(i),
         geo |-> V9KPartition(VolumeStart(i), VolumeCapacity, FullFatSectors),
         fat |-> _create_fat12(Geometry(FullFatSectors)),
         dirty |-> FALSE]]

InitHD ==
    /\ \E n \in 1..NumPartitions :
          /\ _partitions = _load_partitions(n)
          /\ image = HardDiskImage(n)
    /\ geo = _partitions[1].geo
    /\ fat_data = _partitions[1].fat
    /\ fat_dirty = FALSE
    /\ readonly = FALSE
    /\ res = NoCall
    /\ nops = 0
    /\ walk = NoWalk
    /\ _file = "open"

\* the partition the calls are made on
Selected == CHOOSE i \in 1..Len(_partitions) : _partitions[i].geo = geo

\* _partitions with the selected partition's fields as the call left them
Stored(s) ==
    [_partitions EXCEPT ![Selected].fat = s.fat, ![Selected].dirty = s.dirty]

\* get_partition without the test for a negative index: the list is then
\* indexed from its end
get_partition_from_end(index) ==
    IF index >= Len(_partitions)
    THEN [err |-> "InvalidPartition", at |-> 0]
    ELSE [err |-> "", at |-> IF index < 0 THEN Len(_partitions) + 1 + index ELSE index + 1]

\* get_partition(index): the place in _partitions of what it returns
get_partition(index) ==
    IF index < 0 \/ index >= Len(_partitions)
    THEN [err |-> "InvalidPartition", at |-> 0]
    ELSE [err |-> "", at |-> index + 1]

\* a flush() or close() of the disk is going through the partitions
Looping == res.op \in {"flushing", "closing"}

\* get_partition(index); the calls that follow are made on what it returned
GetPartition ==
    \E index \in (0 - 1)..NumPartitions :
        LET got == get_partition(index)
        IN /\ nops < MaxOps /\ ~Looping
           /\ res' = [Call("get_partition", <<>>, <<>>, index, got.err)
                          EXCEPT !.out = IF got.err = "" THEN <<got.at>> ELSE <<>>]
           /\ _partitions' = Stored(Now)
           /\ IF got.err = ""
              THEN /\ geo' = _partitions[got.at].geo
                   /\ fat_data' = Stored(Now)[got.at].fat
                   /\ fat_dirty' = Stored(Now)[got.at].dirty
              ELSE UNCHANGED <<geo, fat_data, fat_dirty>>
           /\ UNCHANGED <<_file, image, readonly, nops, walk>>

\* V9KHardDiskImage.flush / close: entering the loop over the partitions
HardDiskFlush ==
    \E op \in {"flushing", "closing"} :
        /\ nops < MaxOps /\ ~Looping
        /\ res' = Call(op, <<>>, <<>>, 1, "")
        /\ _partitions' = Stored(Now)
        /\ geo' = _partitions[1].geo
        /\ fat_data' = Stored(Now)[1].fat
        /\ fat_dirty' = Stored(Now)[1].dirty
        /\ UNCHANGED <<_file, image, readonly, nops, walk>>

\* one turn of the loop: partition.flush(); after the last, file.flush()
\* and, in close(), file.close() and _file = None
PartitionFlush ==
    /\ Looping
    /\ Bind(flush(Now), LAMBDA s :
          /\ image' = s.img
          /\ _partitions' = Stored(s)
          /\ IF s.err = "" /\ res.arg < Len(_partitions)
             THEN /\ geo' = _partitions[res.arg + 1].geo
                  /\ fat_data' = _partitions[res.arg + 1].fat
                  /\ fat_dirty' = _partitions[res.arg + 1].dirty
                  /\ res' = [res EXCEPT !.arg = res.arg + 1]
                  /\ UNCHANGED <<_file, nops>>
             ELSE /\ fat_data' = s.fat
                  /\ fat_dirty' = s.dirty
                  /\ res' = Call(IF res.op = "closing" THEN "close" ELSE "flush",
                                 <<>>, <<>>, res.arg, s.err)
                  /\ _file' = IF res.op = "closing" /\ s.err = "" THEN "closed" ELSE _file
                  /\ nops' = IF res.op = "closing" THEN MaxOps ELSE nops + 1
                  /\ UNCHANGED geo)
    /\ UNCHANGED <<readonly, walk>>

NextHD ==
    \/ ~Looping /\ Next
    \/ GetPartition
    \/ HardDiskFlush
    \/ PartitionFlush

SpecHD == InitHD /\ [][NextHD]_vars

-----------------------------------------------------------------------------
(* Layout detection (harddisk.py, V9KPartition._detect_fat_size and        *)
(* _is_directory_sector).  Only the first directory record of a sector is  *)
(* looked at: a sector is here its first name byte and one more (for the   *)
(* eight), one extension byte (for the three) and the attribute byte.      *)

ScanSector(b0, b1, e, a) == [name |-> <<b0, b1>>, ext |-> <<e>>, attr |-> a]

\* A-Z, 0-9, space and the special characters of 8.3 names
NameChar(b) ==
    \/ b = 32
    \/ b \in 65..90
    \/ b \in 48..57
    \/ b \in {33, 35, 36, 37, 38, 39, 40, 41, 45, 64, 94, 95, 96, 123, 125, 126}

_is_directory_sector(data) ==
    IF data.name[1] = 248 THEN FALSE
    ELSE IF data.name[1] = 0 THEN FALSE
    ELSE IF data.attr > 63 \/ data.attr = 15 THEN FALSE
    ELSE IF data.name[1] # 229
            /\ \/ \E i \in 1..Len(data.name) : ~(NameChar(data.name[i]) \/ data.name[i] = 46)
               \/ \E i \in 1..Len(data.ext) : ~NameChar(data.ext[i])
         THEN FALSE
    ELSE TRUE

\* the upper bound of the scan, from the volume's capacity
MaxFatSectors ==
    LET estimated_clusters == VolumeCapacity \div SECTORS_PER_CLUSTER
        fat_bytes == (estimated_clusters * 3 + 1) \div 2
    IN IF (fat_bytes + SECTOR_SIZE - 1) \div SECTOR_SIZE < 1 THEN 1
       ELSE (fat_bytes + SECTOR_SIZE - 1) \div SECTOR_SIZE

MaxScan == IF MaxFatSectors * 2 + 10 < 100 THEN MaxFatSectors * 2 + 10 ELSE 100

\* the first offset from 1 to max_scan whose sector is directory-shaped,
\* or 0 when the loop ends without one
FirstDirectoryOffset(img, volume_start) ==
    LET hits == {offset \in 1..MaxScan : _is_directory_sector(img[volume_start + offset])}
    IN IF hits = {} THEN 0 ELSE CHOOSE k \in hits : \A h \in hits : k <= h

_detect_fat_size(img, volume_start) ==
    LET offset == FirstDirectoryOffset(img, volume_start)
    IN IF offset = 0 THEN MaxFatSectors
       ELSE IF (offset - 1) \div 2 < 1 THEN 1 ELSE (offset - 1) \div 2

\* sectors that are not directory-shaped: the start of a FAT, zeros, FAT
\* bytes 0xFF, a long-name record, an attribute above 0x3F, a dot in the
\* extension, a control byte in the name
OtherSectors ==
    {ScanSector(248, 255, 255, 255), ScanSector(0, 0, 0, 0), ScanSector(255, 255, 255, 15),
     ScanSector(65, 66, 67, 15), ScanSector(65, 66, 67, 64), ScanSector(65, 66, 46, 32),
     ScanSector(65, 7, 67, 32)}

\* directory-shaped sectors: a file, a label, the dot entry, a deleted
\* record whose name bytes are anything
DirectoryShaped ==
    {ScanSector(65, 48, 32, 32), ScanSector(95, 126, 57, 8), ScanSector(46, 32, 32, 16),
     ScanSector(229, 7, 255, 63)}

ScanVolumes == {0, VolumeStart(1)}

\* a volume whose sectors before offset k are of one kind that is not
\* directory-shaped, with a directory-shaped sector at k (none for k = 0)
\* and anything after it
InitScan ==
    /\ \E volume_start \in ScanVolumes, k \in 0..MaxScan :
       \E before \in OtherSectors, at \in DirectoryShaped,
          after \in OtherSectors \cup DirectoryShaped :
          /\ image = [n \in volume_start..(volume_start + MaxScan) |->
                        IF n = volume_start \/ n - volume_start < k \/ k = 0 THEN before
                        ELSE IF n - volume_start = k THEN at ELSE after]
          /\ res = Call("open", <<>>, <<>>, volume_start, "")
    /\ geo = Geometry(FullFatSectors)
    /\ fat_data = <<>>
    /\ fat_dirty = FALSE
    /\ readonly = FALSE
    /\ nops = 0
    /\ walk = NoWalk
    /\ _file = "open"
    /\ _partitions = <<>>

\* V9KPartition.__init__: the layout derived from the detected FAT size
DetectFatSize ==
    /\ nops = 0
    /\ geo' = V9KPartition(res.arg, VolumeCapacity, _detect_fat_size(image, res.arg))
    /\ res' = [Call("_detect_fat_size", <<>>, <<>>, res.arg, "")
                  EXCEPT !.out = <<_detect_fat_size(image, res.arg)>>]
    /\ nops' = 1
    /\ UNCHANGED <<_file, _partitions, image, fat_data, fat_dirty, readonly, walk>>

SpecScan == InitScan /\ [][DetectFatSize]_vars

-----------------------------------------------------------------------------
(* The CP/M engine (cpm.py, V9KCPMDiskImage; models.py, CPMDirectoryEntry) *)
(* scaled down: a record is 2 bytes, a sector one record, a block two      *)
(* sectors, an extent two blocks and four records, EL counts modulo 2.     *)
(* The directory takes every second sector from CPM_DIR_START_SECTOR.      *)

CPM_RECORD_SIZE == 2
CPM_SECTOR_SIZE == 2
CPM_SECTORS_PER_BLOCK == 2
CPM_BLOCK_SIZE == CPM_SECTOR_SIZE * CPM_SECTORS_PER_BLOCK
CPM_BLOCKS_PER_EXTENT == 2
CPM_RECORDS_PER_EXTENT == 4
CPM_DIR_START_SECTOR == 2
CPM_DIR_SECTORS == 3
CPM_DIR_INTERLEAVE == 2
CPM_DATA_START_SECTOR == 8
CPM_MAX_BLOCKS == 8
CPM_DELETED == 229
\* directory entries per sector (16 in cpm.py)
CPM_ENTRIES_PER_SECTOR == 2
\* extents per value of S2 (32 in models.py)
CPM_EL_RANGE == 2
\* the byte that pads the last block
CPM_EOF == 26

\* CPMDirectoryEntry.to_bytes: the 32 bytes of a directory entry
to_bytes(entry) ==
    [b0 |-> IF entry.is_deleted THEN CPM_DELETED ELSE entry.user,
     name |-> entry.filename,
     el |-> entry.extent % CPM_EL_RANGE,
     s2 |-> entry.extent \div CPM_EL_RANGE,
     rc |-> entry.record_count,
     ptr |-> [i \in 1..CPM_BLOCKS_PER_EXTENT |->
                IF i <= Len(entry.blocks) THEN entry.blocks[i] ELSE 0]]

NonZero(block) == block # 0

\* CPMDirectoryEntry.from_bytes
from_bytes(data) ==
    [user |-> IF data.b0 = CPM_DELETED THEN 0 ELSE data.b0,
     filename |-> data.name,
     extent |-> data.s2 * CPM_EL_RANGE + data.el,
     record_count |-> data.rc,
     blocks |-> SelectSeq(data.ptr, NonZero),
     is_deleted |-> data.b0 = CPM_DELETED]

\* a directory entry never written: the fill byte in its first byte, no
\* printable name
BlankEntry(fill) ==
    [b0 |-> fill, name |-> 0, el |-> 0, s2 |-> 0, rc |-> 0,
     ptr |-> [i \in 1..CPM_BLOCKS_PER_EXTENT |-> 0]]

\* the directory slots in the order the loops visit them
CpmSlots == 1..(CPM_DIR_SECTORS * CPM_ENTRIES_PER_SECTOR)
SlotSector(k) ==
    CPM_DIR_START_SECTOR + ((k - 1) \div CPM_ENTRIES_PER_SECTOR) * CPM_DIR_INTERLEAVE
SlotIndex(k) == ((k - 1) % CPM_ENTRIES_PER_SECTOR) + 1
SlotEntry(img, k) == img[SlotSector(k)][SlotIndex(k)]

\* read_directory: the entries that are not deleted, have a user number of
\* 0..15 and a printable name
Listable(data) == data.b0 # CPM_DELETED /\ data.b0 <= 15 /\ data.name # 0

cpm_read_directory(img) ==
    LET all == [k \in CpmSlots |-> SlotEntry(img, k)]
        kept == SelectSeq(all, Listable)
    IN [i \in 1..Len(kept) |-> from_bytes(kept[i])]

\* _find_free_dir_slot: the first slot whose first byte is 0xE5 or 0x00
cpm_find_free_dir_slot(img) ==
    LET free == {k \in CpmSlots : SlotEntry(img, k).b0 \in {CPM_DELETED, 0}}
    IN IF free = {} THEN 0 ELSE CHOOSE k \in free : \A h \in free : k <= h

\* write_sector of the CP/M image
cpm_write_sector(s, sector, data) ==
    IF s.err # "" THEN s
    ELSE IF readonly THEN Raise(s, "DiskError")
    ELSE [s EXCEPT !.img = [s.img EXCEPT ![sector] = data]]

\* _write_dir_entry
cpm_write_dir_entry(s, k, entry) ==
    cpm_write_sector(s, SlotSector(k),
                     [s.img[SlotSector(k)] EXCEPT ![SlotIndex(k)] = to_bytes(entry)])

block_to_sector(block) == CPM_DATA_START_SECTOR + block * CPM_SECTORS_PER_BLOCK

read_block(img, block) ==
    img[block_to_sector(block)] \o img[block_to_sector(block) + 1]

write_block(s, block, data) ==
    cpm_write_sector(
        cpm_write_sector(s, block_to_sector(block), SubSeq(data, 1, CPM_SECTOR_SIZE)),
        block_to_sector(block) + 1, SubSeq(data, CPM_SECTOR_SIZE + 1, CPM_BLOCK_SIZE))

\* _get_used_blocks
_get_used_blocks(img) ==
    LET dir == cpm_read_directory(img)
    IN UNION {Range(dir[i].blocks) : i \in 1..Len(dir)}

\* _allocate_blocks: the lowest count blocks no entry points at
RECURSIVE AllocateFrom(_, _, _)
AllocateFrom(used, block, count) ==
    IF count = 0 \/ block >= CPM_MAX_BLOCKS THEN <<>>
    ELSE IF block \in used THEN AllocateFrom(used, block + 1, count)
    ELSE <<block>> \o AllocateFrom(used, block + 1, count - 1)

_allocate_blocks(img, count) ==
    LET blocks == AllocateFrom(_get_used_blocks(img), 0, count)
    IN [err |-> IF Len(blocks) < count THEN "DiskFull" ELSE "", blocks |-> blocks]

\* extents.sort(key = extent): a stable sort
RECURSIVE SortByExtent(_)
SortByExtent(extents) ==
    IF extents = <<>> THEN <<>>
    ELSE LET first == CHOOSE i \in 1..Len(extents) :
                        /\ \A j \in 1..Len(extents) : extents[i].extent <= extents[j].extent
                        /\ \A j \in 1..(i - 1) : extents[j].extent # extents[i].extent
         IN <<extents[first]>>
            \o SortByExtent(SubSeq(extents, 1, first - 1)
                            \o SubSeq(extents, first + 1, Len(extents)))

\* list_files: the extents of the file (user, filename), and its size
ExtentsOf(img, user, filename) ==
    LET dir == cpm_read_directory(img)
        same == {i \in 1..Len(dir) : dir[i].user = user /\ dir[i].filename = filename}
        RECURSIVE Pick(_)
        Pick(i) == IF i > Len(dir) THEN <<>>
                   ELSE (IF i \in same THEN <<dir[i]>> ELSE <<>>) \o Pick(i + 1)
    IN SortByExtent(Pick(1))

FileSize(extents) ==
    (Len(extents) - 1) * CPM_RECORDS_PER_EXTENT * CPM_RECORD_SIZE
        + extents[Len(extents)].record_count * CPM_RECORD_SIZE

\* list_files: the files as (user, filename), sorted
list_files(img) ==
    LET dir == cpm_read_directory(img)
    IN {<<dir[i].user, dir[i].filename>> : i \in 1..Len(dir)}

\* find_file(filename) with user = None: the first file of the name in the
\* sorted list, that is the one of the lowest user number
find_file(img, filename) ==
    LET users == {f[1] : f \in {g \in list_files(img) : g[2] = filename}}
    IN IF users = {} THEN [found |-> FALSE, user |-> 0, extents |-> <<>>]
       ELSE LET user == CHOOSE u \in users : \A v \in users : u <= v
            IN [found |-> TRUE, user |-> user, extents |-> ExtentsOf(img, user, filename)]

RECURSIVE ReadBlocks(_, _)
ReadBlocks(img, blocks) ==
    IF blocks = <<>> THEN <<>>
    ELSE read_block(img, blocks[1]) \o ReadBlocks(img, Tail(blocks))

RECURSIVE ExtentBlocks(_)
ExtentBlocks(extents) ==
    IF extents = <<>> THEN <<>> ELSE extents[1].blocks \o ExtentBlocks(Tail(extents))

\* read_file: the blocks of every extent in order, cut to the file's size
cpm_read_file(img, filename) ==
    LET f == find_file(img, filename)
        data == ReadBlocks(img, ExtentBlocks(f.extents))
    IN IF ~f.found THEN [err |-> "NotFound", out |-> <<>>]
       ELSE [err |-> "", out |-> SubSeq(data, 1, Min(FileSize(f.extents), Len(data)))]

\* delete_file, one extent in one directory sector: the first entry of the
\* sector that is not skipped (first byte 0xE5 or 0x00) and is the extent
MarkDeleted(s, extent, sector) ==
    LET hits == {i \in 1..CPM_ENTRIES_PER_SECTOR :
                    /\ s.img[sector][i].b0 \notin {CPM_DELETED, 0}
                    /\ from_bytes(s.img[sector][i]).user = extent.user
                    /\ from_bytes(s.img[sector][i]).filename = extent.filename
                    /\ from_bytes(s.img[sector][i]).extent = extent.extent}
    IN IF s.err # "" \/ hits = {} THEN s
       ELSE LET i == CHOOSE h \in hits : \A g \in hits : h <= g
            IN cpm_write_sector(s, sector,
                    [s.img[sector] EXCEPT ![i] = [@ EXCEPT !.b0 = CPM_DELETED]])

RECURSIVE DeleteExtents(_, _, _)
DeleteExtents(s, extents, sector_offset) ==
    IF extents = <<>> \/ s.err # "" THEN s
    ELSE IF sector_offset >= CPM_DIR_SECTORS THEN DeleteExtents(s, Tail(extents), 0)
    ELSE DeleteExtents(
            MarkDeleted(s, extents[1],
                        CPM_DIR_START_SECTOR + sector_offset * CPM_DIR_INTERLEAVE),
            extents, sector_offset + 1)

cpm_delete_file(s, filename) ==
    IF readonly THEN Raise(s, "DiskError")
    ELSE IF ~find_file(s.img, filename).found THEN Raise(s, "NotFound")
    ELSE DeleteExtents(s, find_file(s.img, filename).extents, 0)

\* the block of the data at offset, padded with the EOF byte
BlockData(data, offset) ==
    [k \in 1..CPM_BLOCK_SIZE |-> IF offset + k <= Len(data) THEN data[offset + k] ELSE CPM_EOF]

RECURSIVE WriteBlocks(_, _, _, _)
WriteBlocks(s, blocks, i, data) ==
    IF i > Len(blocks) \/ s.err # "" THEN s
    ELSE WriteBlocks(write_block(s, blocks[i], BlockData(data, (i - 1) * CPM_BLOCK_SIZE)),
                     blocks, i + 1, data)

\* write_file, the loop that writes one directory entry per extent
RECURSIVE WriteExtents(_, _, _, _, _, _, _)
WriteExtents(s, user, name, blocks, block_idx, records_remaining, extent_num) ==
    IF block_idx >= Len(blocks) \/ s.err # "" THEN s
    ELSE IF cpm_find_free_dir_slot(s.img) = 0 THEN Raise(s, "DirectoryFull")
    ELSE LET extent_blocks ==
                SubSeq(blocks, block_idx + 1, Min(block_idx + CPM_BLOCKS_PER_EXTENT, Len(blocks)))
             extent_records == Min(records_remaining, CPM_RECORDS_PER_EXTENT)
             entry == [user |-> user, filename |-> name, extent |-> extent_num,
                       record_count |-> extent_records, blocks |-> extent_blocks,
                       is_deleted |-> FALSE]
         IN WriteExtents(cpm_write_dir_entry(s, cpm_find_free_dir_slot(s.img), entry),
                         user, name, blocks, block_idx + Len(extent_blocks),
                         records_remaining - extent_records, extent_num + 1)

\* at least 1, for the blocks and the records of an empty file
AtLeastOne(n) == IF n = 0 THEN 1 ELSE n

cpm_write_file(s0, name, data, user) ==
    IF readonly THEN Raise(s0, "DiskError") ELSE
    Bind(IF find_file(s0.img, name).found THEN cpm_delete_file(s0, name) ELSE s0, LAMBDA s :
    IF s.err # "" THEN s ELSE
    Bind(_allocate_blocks(s.img,
            AtLeastOne((Len(data) + CPM_BLOCK_SIZE - 1) \div CPM_BLOCK_SIZE)), LAMBDA a :
    IF a.err # "" THEN Raise(s, a.err) ELSE
    WriteExtents(WriteBlocks(s, a.blocks, 1, data), user, name, a.blocks, 0,
                 AtLeastOne((Len(data) + CPM_RECORD_SIZE - 1) \div CPM_RECORD_SIZE), 0)))

\* the lengths 0, 1, one block less one, one block, one block and one, and
\* more than two extents
CpmLengths ==
    {0, 1, CPM_BLOCK_SIZE - 1, CPM_BLOCK_SIZE, CPM_BLOCK_SIZE + 1,
     2 * CPM_RECORDS_PER_EXTENT * CPM_RECORD_SIZE + 1}

CpmUsers == {0, 1}

\* a blank image: the directory filled with 0xE5 or with zeros
InitCpm ==
    /\ \E fill \in {CPM_DELETED, 0} :
          image = [n \in 0..(CPM_DATA_START_SECTOR + CPM_MAX_BLOCKS * CPM_SECTORS_PER_BLOCK - 1) |->
                    IF n < CPM_DATA_START_SECTOR /\ n >= CPM_DIR_START_SECTOR
                       /\ (n - CPM_DIR_START_SECTOR) % CPM_DIR_INTERLEAVE = 0
                    THEN [i \in 1..CPM_ENTRIES_PER_SECTOR |-> BlankEntry(fill)]
                    ELSE [i \in 1..CPM_SECTOR_SIZE |-> fill]]
    /\ geo = [dir_start_sector |-> CPM_DIR_START_SECTOR]
    /\ fat_data = <<>>
    /\ fat_dirty = FALSE
    /\ readonly = FALSE
    /\ res = NoCall
    /\ nops = 0
    /\ walk = NoWalk
    /\ _file = "open"
    /\ _partitions = <<>>

CpmDone(s, call) ==
    /\ nops < MaxOps
    /\ image' = s.img
    /\ res' = [call EXCEPT !.err = s.err]
    /\ nops' = nops + 1
    /\ UNCHANGED <<_file, _partitions, geo, fat_data, fat_dirty, readonly, walk>>

CpmWriteFile ==
    \E name \in Names, len \in CpmLengths, user \in CpmUsers :
        CpmDone(cpm_write_file(Now, name, DataOf(len), user),
                Call("write_file", <<name>>, DataOf(len), user, ""))

CpmDeleteFile ==
    \E name \in Names :
        CpmDone(cpm_delete_file(Now, name), Call("delete_file", <<name>>, <<>>, 0, ""))

CpmReadFile ==
    \E name \in Names :
        CpmDone(Raise(Now, cpm_read_file(image, name).err),
                [Call("read_file", <<name>>, <<>>, 0, "")
                    EXCEPT !.out = cpm_read_file(image, name).out])

NextCpm ==
    \/ CpmWriteFile
    \/ CpmDeleteFile
    \/ CpmReadFile

SpecCpm == InitCpm /\ [][NextCpm]_vars

-----------------------------------------------------------------------------
(* The Victor floppy's boot sector (floppy.py, V9KDiskImage.__init__ and   *)
(* _read_boot_sector), in sectors of 512 bytes.  Of sector 0 the model     *)
(* keeps the fields the code reads: the words at offsets 26, 28 and 32 and *)
(* the byte at offset 34.                                                  *)

BootSector(sector_size, data_start, flags, disc_type) ==
    [sector_size |-> sector_size, data_start |-> data_start,
     flags |-> flags, disc_type |-> disc_type]

\* _read_boot_sector with the data start taken from the side count alone
_read_boot_sector_sides(boot) ==
    LET _double_sided == boot.flags % 2 = 1
    IN [fat_start |-> 1,
        fat_sectors |-> IF _double_sided THEN 2 ELSE 1,
        num_fat_copies |-> 2,
        dir_start |-> IF _double_sided THEN 5 ELSE 3,
        dir_sectors |-> 8,
        data_start |-> IF _double_sided THEN 13 ELSE 11,
        total_clusters |-> IF _double_sided THEN 2378 ELSE 1214,
        sectors_per_cluster |-> 4]

\* _read_boot_sector and the properties of V9KDiskImage
_read_boot_sector(boot) ==
    LET _double_sided == boot.flags % 2 = 1
    IN [fat_start |-> 1,
        fat_sectors |-> IF _double_sided THEN 2 ELSE 1,
        num_fat_copies |-> 2,
        dir_start |-> IF _double_sided THEN 5 ELSE 3,
        dir_sectors |-> 8,
        data_start |-> IF boot.data_start # 0 THEN boot.data_start
                       ELSE IF _double_sided THEN 13 ELSE 11,
        total_clusters |-> IF _double_sided THEN 2378 ELSE 1214,
        sectors_per_cluster |-> 4]

\* boot sectors: the sector size right, zero and wrong; the data start
\* absent, as formatted for either side count, and another; flags with bit
\* 0 and other bits; both disc types
InitBoot ==
    /\ \E sector_size \in {0, 256, 512}, data_start \in {0, 11, 13, 20},
          flags \in {0, 1, 2, 3, 256, 257}, disc_type \in {0, 1} :
          image = [n \in {0} |-> BootSector(sector_size, data_start, flags, disc_type)]
    /\ geo = [fat_start |-> 1, fat_sectors |-> 1, num_fat_copies |-> 2, dir_start |-> 0,
              dir_sectors |-> 8, data_start |-> 0, total_clusters |-> 0,
              sectors_per_cluster |-> 4]
    /\ fat_data = <<>>
    /\ fat_dirty = FALSE
    /\ readonly = TRUE
    /\ res = NoCall
    /\ nops = 0
    /\ walk = NoWalk
    /\ _file = "open"
    /\ _partitions = <<>>

ReadBootSector ==
    /\ nops = 0
    /\ geo' = _read_boot_sector(image[0])
    /\ res' = Call("_read_boot_sector", <<>>, <<>>, image[0].flags, "")
    /\ nops' = 1
    /\ UNCHANGED <<_file, _partitions, image, fat_data, fat_dirty, readonly, walk>>

SpecBoot == InitBoot /\ [][ReadBootSector]_vars

-----------------------------------------------------------------------------
(* The image sniffer (utils.py, detect_image_type, detect_cpm_dir_sector). *)
(* Of the file the model keeps its size, the fields of sector 0 that the   *)
(* code reads, and for each candidate directory sector the number of its   *)
(* first four entries that _check_cpm_dir_at_sector counts as valid.       *)

\* the candidate sectors of the CP/M directory, in the order tried
CpmCandidates == <<76, 94, 1>>

detect_cpm_dir_sector(file) ==
    LET hits == {i \in 1..Len(CpmCandidates) : file.cpm_valid[CpmCandidates[i]] >= 2}
    IN IF hits = {} THEN 0 ELSE CpmCandidates[CHOOSE i \in hits : \A j \in hits : i <= j]

_is_cpm_disk(file) == detect_cpm_dir_sector(file) # 0

detect_image_type(file) ==
    LET sector0 == file.sector0
        label_type == sector0.byte0 + 256 * sector0.byte1
    IN IF file.file_size > 2 * 1024 * 1024 THEN "harddisk"
       ELSE IF file.file_size < 512 THEN "floppy"
       ELSE IF /\ sector0.boot_sig = 43605
               /\ sector0.byte0 \in {235, 233}
               /\ sector0.bytes_per_sector = 512
               /\ sector0.sectors_per_cluster \in {1, 2, 4, 8}
               /\ sector0.reserved_sectors >= 1
               /\ sector0.num_fats \in {1, 2}
               /\ sector0.media_descriptor >= 240
            THEN "ibmpc"
       ELSE IF label_type = 1 /\ sector0.device_id = 1 THEN "harddisk"
       ELSE IF sector0.byte0 \in {255, 229, 0} /\ _is_cpm_disk(file) THEN "cpm"
       ELSE "floppy"

\* files below and above 512 bytes and 2 MiB; first bytes that are a jump,
\* the low byte of label type 1, the CP/M bytes and a letter; BPB fields in
\* and out of range; CP/M directories at no, the first, the last candidate
InitSniff ==
    /\ \E file_size \in {100, 2 * 1024 * 1024, 2 * 1024 * 1024 + 1},
          byte0 \in {235, 233, 1, 255, 229, 0, 65}, byte1 \in {0, 1}, device_id \in {0, 1},
          boot_sig \in {43605, 0}, bytes_per_sector \in {512, 256},
          sectors_per_cluster \in {2, 3}, reserved_sectors \in {0, 1},
          num_fats \in {0, 1, 3}, media_descriptor \in {249, 229}, fat_sectors \in {0, 9},
          cpm \in {<<0, 0, 0>>, <<2, 0, 0>>, <<1, 1, 4>>} :
          image = [file_size |-> file_size,
                   sector0 |-> [byte0 |-> byte0, byte1 |-> byte1, device_id |-> device_id,
                                boot_sig |-> boot_sig, bytes_per_sector |-> bytes_per_sector,
                                sectors_per_cluster |-> sectors_per_cluster,
                                reserved_sectors |-> reserved_sectors, num_fats |-> num_fats,
                                media_descriptor |-> media_descriptor,
                                fat_sectors |-> fat_sectors],
                   cpm_valid |-> [n \in {76, 94, 1} |->
                                    IF n = 76 THEN cpm[1] ELSE IF n = 94 THEN cpm[2] ELSE cpm[3]]]
    /\ geo = Geometry(FullFatSectors)
    /\ fat_data = <<>>
    /\ fat_dirty = FALSE
    /\ readonly = TRUE
    /\ res = NoCall
    /\ nops = 0
    /\ walk = NoWalk
    /\ _file = "open"
    /\ _partitions = <<>>

DetectImageType ==
    /\ nops = 0
    /\ res' = [Call("detect_image_type", <<>>, <<>>, 0, "")
                  EXCEPT !.out = <<detect_image_type(image)>>]
    /\ nops' = 1
    /\ UNCHANGED <<_file, _partitions, geo, image, fat_data, fat_dirty, readonly, walk>>

SpecSniff == InitSniff /\ [][DetectImageType]_vars

-----------------------------------------------------------------------------
(* External paths (utils.py, parse_image_path).  A path is a sequence of   *)
(* characters; each of the three extensions stands as one character, and   *)
(* "IMG" is ".img" in upper case, which lower() turns into "img".          *)

Extensions == <<"img", "ima", "dsk">>

lower(path_spec) ==
    [i \in 1..Len(path_spec) |-> IF path_spec[i] = "IMG" THEN "img" ELSE path_spec[i]]

\* str.find: the first place of the character, 0 for -1
find(str, ch) ==
    IF \E i \in 1..Len(str) : str[i] = ch
    THEN CHOOSE i \in 1..Len(str) : str[i] = ch /\ \A j \in 1..(i - 1) : str[j] # ch
    ELSE 0

isdigit(ch) == ch \in {"0", "1", "7"}

\* the end of the run of digits the string starts with
RECURSIVE NumEnd(_, _)
NumEnd(str, num_end) ==
    IF num_end < Len(str) /\ isdigit(str[num_end + 1]) THEN NumEnd(str, num_end + 1)
    ELSE num_end

\* int() of a string of digits
RECURSIVE int(_)
int(str) ==
    IF str = <<>> THEN 0
    ELSE 10 * int(SubSeq(str, 1, Len(str) - 1))
         + (IF str[Len(str)] = "0" THEN 0 ELSE IF str[Len(str)] = "1" THEN 1 ELSE 7)

From(str, i) == SubSeq(str, i, Len(str))

IsSeparator(ch) == ch \in {"\\", "/"}

\* the result (image_path, partition, internal_path); None is <<>> for a
\* path and -1 for the partition
Parsed(image_path, partition, internal_path) ==
    <<image_path, partition, internal_path>>

\* the body of the loop for the extension found at idx
ParseAt(path_spec, idx) ==
    LET image_path == SubSeq(path_spec, 1, idx)
        remainder == From(path_spec, idx + 1)
    IN IF remainder = <<>> THEN Parsed(image_path, 0 - 1, <<>>)
       ELSE IF remainder[1] # ":" THEN Parsed(image_path, 0 - 1, <<>>)
       ELSE Bind(From(remainder, 2), LAMBDA rest :
            IF rest = <<>> THEN Parsed(image_path, 0 - 1, <<>>)
            ELSE IF isdigit(rest[1])
            THEN Bind(From(rest, NumEnd(rest, 0) + 1), LAMBDA after_num :
                 Bind(int(SubSeq(rest, 1, NumEnd(rest, 0))), LAMBDA partition :
                 IF after_num = <<>> THEN Parsed(image_path, partition, <<>>)
                 ELSE IF after_num[1] = ":"
                 THEN (IF Len(after_num) = 1 THEN Parsed(image_path, partition, <<>>)
                       ELSE IF IsSeparator(after_num[2])
                       THEN Parsed(image_path, partition, From(after_num, 3))
                       ELSE Parsed(image_path, partition, From(after_num, 2)))
                 ELSE IF IsSeparator(after_num[1])
                 THEN Parsed(image_path, partition, From(after_num, 2))
                 ELSE Parsed(<<>>, 0 - 1, path_spec)))
            ELSE IF IsSeparator(rest[1]) THEN Parsed(image_path, 0 - 1, From(rest, 2))
            ELSE Parsed(image_path, 0 - 1, rest))

RECURSIVE ParseFrom(_, _)
ParseFrom(path_spec, e) ==
    IF e > Len(Extensions) THEN Parsed(<<>>, 0 - 1, path_spec)
    ELSE IF find(lower(path_spec), Extensions[e]) # 0
    THEN ParseAt(path_spec, find(lower(path_spec), Extensions[e]))
    ELSE ParseFrom(path_spec, e + 1)

parse_image_path(path_spec) == ParseFrom(path_spec, 1)

\* image names ending in an extension, after nothing, a letter or an
\* extension; partitions none (-1), 0, 7 and 10; internal paths of one and
\* two characters
ImageNames ==
    {prefix \o <<ext>> : prefix \in {<<>>, <<"a">>, <<"img">>, <<"dsk">>},
                         ext \in {"img", "ima", "dsk", "IMG"}}
PartitionStrings == {<<>>, <<"0">>, <<"7">>, <<"1", "0">>}
PathChars == {"a", "\\", "1", "img", "dsk"}
InternalPaths ==
    {<<c>> : c \in PathChars} \cup {<<c, d>> : c \in PathChars, d \in PathChars}

\* IMAGE ':' N ':' backslash P, or IMAGE ':' backslash P for no partition
PathSpec(name, digits, internal) ==
    name \o <<":">> \o (IF digits = <<>> THEN <<>> ELSE digits \o <<":">>)
         \o <<"\\">> \o internal

InitParse ==
    /\ \E name \in ImageNames, digits \in PartitionStrings, internal \in InternalPaths :
          /\ image = PathSpec(name, digits, internal)
          /\ res = Call("input", name, internal,
                        IF digits = <<>> THEN 0 - 1 ELSE int(digits), "")
    /\ geo = Geometry(FullFatSectors)
    /\ fat_data = <<>>
    /\ fat_dirty = FALSE
    /\ readonly = TRUE
    /\ nops = 0
    /\ walk = NoWalk
    /\ _file = "open"
    /\ _partitions = <<>>

ParseImagePath ==
    /\ nops = 0
    /\ res' = [res EXCEPT !.op = "parse_image_path", !.out = parse_image_path(image)]
    /\ nops' = 1
    /\ UNCHANGED <<_file, _partitions, geo, image, fat_data, fat_dirty, readonly, walk>>

SpecParse == InitParse /\ [][ParseImagePath]_vars

-----------------------------------------------------------------------------
(* follow_chain, allocate_chain, free_chain and read_file on the FAT of    *)
(* any image, a damaged one included: the FAT entries are arbitrary.       *)

\* values of an entry: FREE, a reserved code, end of chain, every cluster
\* of the volume, and a cluster number past the last one
RawValues == {FAT_FREE, 4080, FAT_EOF_MAX} \cup (2 .. (TOTAL_CLUSTERS + 2))

\* a FAT shadow with the entries v[c] for the clusters it has room for
RECURSIVE RawFat(_, _, _)
RawFat(fat, v, c) ==
    IF c > TOTAL_CLUSTERS + 1 \/ ~InFat(fat, c) THEN fat
    ELSE RawFat(set_fat_entry(fat, c, v[c]), v, c + 1)

\* an image with that FAT in every copy and two files in the root
\* directory, the first starting at cluster 2, the second at cluster 3
RawImage(g, fat) ==
    [n \in 0..(g.data_start + g.total_clusters * SECTORS_PER_CLUSTER - 1) |->
        IF n >= g.fat_start /\ n < g.fat_start + g.num_fat_copies * g.fat_sectors
        THEN [k \in 1..SECTOR_SIZE |->
                fat[((n - g.fat_start) % g.fat_sectors) * SECTOR_SIZE + k]]
        ELSE IF n = g.dir_start
        THEN [k \in 1..SECTOR_SIZE |->
                DirectoryEntry(k, ATTR_ARCHIVE, k + 1, CLUSTER_SIZE + 1)]
        ELSE IF n >= g.data_start
        THEN [k \in 1..SECTOR_SIZE |-> DataByte(1 + ((n + k) % 2))]
        ELSE ZeroSector]

InitRaw ==
    /\ geo = Geometry(FullFatSectors)
    /\ \E v \in [2 .. (TOTAL_CLUSTERS + 1) -> RawValues] :
          image = RawImage(geo, RawFat(_create_fat12(geo), v, 2))
    /\ fat_data = _load_fat(image)
    /\ fat_dirty = FALSE
    /\ readonly = FALSE
    /\ res = NoCall
    /\ nops = 0
    /\ walk = NoWalk
    /\ _file = "open"
    /\ _partitions = <<>>

\* follow_chain(start_cluster) up to the loop
FollowStart ==
    \E start_cluster \in 0 .. (TOTAL_CLUSTERS + 2) :
        /\ walk.pc = "idle" /\ res = NoCall
        /\ walk' = [pc |-> "loop", start |-> start_cluster,
                    cluster |-> start_cluster, chain |-> <<>>]
        /\ UNCHANGED <<_file, _partitions, geo, image, fat_data, fat_dirty, readonly, res, nops>>

\* the loop of follow_chain without its test of seen
FollowStepUnseen ==
    /\ walk.pc = "loop"
    /\ Len(walk.chain) <= TOTAL_CLUSTERS + 2
    /\ IF ~(2 <= walk.cluster /\ walk.cluster <= CHAIN_MAX) \/ walk.start = 0
       THEN walk' = [walk EXCEPT !.pc = "done"]
       ELSE walk' = [walk EXCEPT !.chain = Append(walk.chain, walk.cluster),
                                 !.cluster = get_fat_entry(fat_data, walk.cluster)]
    /\ UNCHANGED <<_file, _partitions, geo, image, fat_data, fat_dirty, readonly, res, nops>>

\* one test of the while condition of follow_chain, and one turn of its body
FollowStep ==
    /\ walk.pc = "loop"
    /\ Len(walk.chain) <= TOTAL_CLUSTERS + 2
    /\ IF ~(2 <= walk.cluster /\ walk.cluster <= CHAIN_MAX) \/ walk.start = 0
       THEN walk' = [walk EXCEPT !.pc = "done"]
       ELSE IF walk.cluster \in Range(walk.chain)
       THEN walk' = [walk EXCEPT !.pc = "raised"]
       ELSE walk' = [walk EXCEPT !.chain = Append(walk.chain, walk.cluster),
                                 !.cluster = get_fat_entry(fat_data, walk.cluster)]
    /\ UNCHANGED <<_file, _partitions, geo, image, fat_data, fat_dirty, readonly, res, nops>>

\* read_file(path) of one of the two files
ReadFile ==
    \E path \in {<<n>> : n \in Names} :
        /\ walk.pc = "idle" /\ res = NoCall
        /\ res' = [Call("read_file", path, <<>>, 0, read_file(image, fat_data, path).err)
                      EXCEPT !.out = read_file(image, fat_data, path).data]
        /\ nops' = nops + 1
        /\ UNCHANGED <<_file, _partitions, geo, image, fat_data, fat_dirty, readonly, walk>>

NextRaw ==
    \/ FollowStart
    \/ FollowStep
    \/ ReadFile

SpecRaw == InitRaw /\ [][NextRaw]_vars /\ WF_vars(FollowStep)

-----------------------------------------------------------------------------
(* allocate_chain and free_chain called on a FAT with any pattern of free, *)
(* bad and linked clusters, on both kinds of geometry.                     *)

\* calls in one run of the allocator
MaxAllocOps == 2

\* kinds of value of the entry of cluster c: FREE, bad, end of chain, a
\* link to the next cluster, a link back to the first
AllocKinds == {"free", "bad", "eof", "next", "first"}

AllocValue(kind, c) ==
    CASE kind = "free" -> FAT_FREE
      [] kind = "bad" -> FAT_BAD
      [] kind = "eof" -> FAT_EOF_MAX
      [] kind = "next" -> c + 1
      [] kind = "first" -> 2

InitAlloc ==
    /\ geo \in {Geometry(FullFatSectors), Geometry(ShortFatSectors)}
    /\ \E kinds \in [2 .. (TOTAL_CLUSTERS + 1) -> AllocKinds] :
          image = RawImage(geo, RawFat(_create_fat12(geo),
                      [c \in 2 .. (TOTAL_CLUSTERS + 1) |-> AllocValue(kinds[c], c)], 2))
    /\ fat_data = _load_fat(image)
    /\ fat_dirty = FALSE
    /\ readonly = FALSE
    /\ res = NoCall
    /\ nops = 0
    /\ walk = NoWalk
    /\ _file = "open"
    /\ _partitions = <<>>

AllocateChain ==
    \E num_clusters \in 0 .. (TOTAL_CLUSTERS + 1) :
        LET a == allocate_chain(fat_data, fat_dirty, num_clusters)
        IN /\ nops < MaxAllocOps
           /\ fat_data' = a.fat
           /\ fat_dirty' = a.dirty
           /\ res' = [Call("allocate_chain", <<>>, <<>>, num_clusters, a.err)
                         EXCEPT !.out = IF a.err = "" THEN a.chain ELSE <<>>]
           /\ nops' = nops + 1
           /\ UNCHANGED <<_file, _partitions, geo, image, readonly, walk>>

FreeChain ==
    \E start_cluster \in 2 .. (TOTAL_CLUSTERS + 1) :
        LET f == free_chain(fat_data, fat_dirty, start_cluster)
        IN /\ nops < MaxAllocOps
           /\ fat_data' = f.fat
           /\ fat_dirty' = f.dirty
           /\ res' = Call("free_chain", <<>>, <<>>, start_cluster, f.err)
           /\ nops' = nops + 1
           /\ UNCHANGED <<_file, _partitions, geo, image, readonly, walk>>

NextAlloc ==
    \/ AllocateChain
    \/ FreeChain

SpecAlloc == InitAlloc /\ [][NextAlloc]_vars

-----------------------------------------------------------------------------
(* set_fat_entry and get_fat_entry called on their own, on a FAT whose     *)
(* entries are all FREE or all set, on both kinds of geometry.             *)

\* 12-bit values with every nibble empty, full and mixed
FatValues == {0, 1, 15, 240, 3840, 1365, 2730, 4095}

InitFat ==
    /\ geo \in {Geometry(FullFatSectors), Geometry(ShortFatSectors)}
    /\ \E kinds \in [2 .. (TOTAL_CLUSTERS + 1) -> {"free", "eof"}] :
          image = RawImage(geo, RawFat(_create_fat12(geo),
                      [c \in 2 .. (TOTAL_CLUSTERS + 1) |-> AllocValue(kinds[c], c)], 2))
    /\ fat_data = _load_fat(image)
    /\ fat_dirty = FALSE
    /\ readonly = FALSE
    /\ res = NoCall
    /\ nops = 0
    /\ walk = NoWalk
    /\ _file = "open"
    /\ _partitions = <<>>

\* set_fat_entry(cluster, value)
SetFatEntry ==
    \E cluster \in 0 .. (TOTAL_CLUSTERS + 2), value \in FatValues :
        LET r == SetEntries(fat_data, fat_dirty, <<<<cluster, value>>>>)
        IN /\ nops < MaxAllocOps
           /\ fat_data' = r.fat
           /\ fat_dirty' = r.dirty
           /\ res' = [Call("set_fat_entry", <<>>, <<>>, cluster, r.err)
                         EXCEPT !.out = <<value>>]
           /\ nops' = nops + 1
           /\ UNCHANGED <<_file, _partitions, geo, image, readonly, walk>>

SpecFat == InitFat /\ [][SetFatEntry]_vars

-----------------------------------------------------------------------------
(* What the claims speak of: the directory tree, the owners of clusters,   *)
(* the FAT copies on disk.                                                 *)

\* nesting of directories walked (paths have at most two components)
WalkDepth == 3

RECURSIVE Walk(_, _, _, _)
RECURSIVE WalkEach(_, _, _, _, _)

\* every listed entry other than '.' and '..' of the directory dc and of the
\* directories below it, each with the directory that holds it
Walk(img, fat, dc, fuel) ==
    LET r == read_directory(img, fat, dc)
    IN IF r.err # "" \/ fuel = 0 THEN <<[dir |-> dc, e |-> ZeroCell, bad |-> TRUE]>>
       ELSE WalkEach(img, fat, dc, NonDot(r.entries), fuel)

WalkEach(img, fat, dc, entries, fuel) ==
    IF entries = <<>> THEN <<>>
    ELSE <<[dir |-> dc, e |-> entries[1], bad |-> FALSE]>>
         \o (IF is_directory(entries[1])
             THEN Walk(img, fat, entries[1].fc, fuel - 1) ELSE <<>>)
         \o WalkEach(img, fat, dc, Tail(entries), fuel)

LiveEntries(img, fat) == Walk(img, fat, ROOT, WalkDepth)

\* the clusters with an entry in the shadow that is FREE
FreeClusters(fat) ==
    {c \in ClusterRange : InFat(fat, c) /\ get_fat_entry(fat, c) = FAT_FREE}

\* the clusters with an entry in the shadow that is neither FREE nor bad
AllocatedClusters(fat) ==
    {c \in ClusterRange :
        InFat(fat, c) /\ get_fat_entry(fat, c) \notin {FAT_FREE, FAT_BAD}}

\* the live entries whose chain holds the cluster
OwnersOf(img, fat, c) ==
    LET live == LiveEntries(img, fat)
    IN {k \in 1..Len(live) : c \in Range(follow_chain(fat, live[k].e.fc).chain)}

\* no lost and no cross-linked clusters
SingleOwner(img, fat) ==
    LET live == LiveEntries(img, fat)
    IN /\ \A k \in 1..Len(live) :
            ~live[k].bad /\ follow_chain(fat, live[k].e.fc).err = ""
       /\ \A c \in AllocatedClusters(fat) : Cardinality(OwnersOf(img, fat, c)) = 1

\* every FAT copy on disk equals the shadow
FatOnDisk(img, fat) ==
    \A copy \in 0..(geo.num_fat_copies - 1) :
        \A k \in 1..Len(fat) :
            read_sector(img, geo.fat_start + copy * geo.fat_sectors
                             + ((k - 1) \div SECTOR_SIZE))[((k - 1) % SECTOR_SIZE) + 1] = fat[k]

\* no directory holds two listed entries with the same name
NoDuplicateNames(img, fat) ==
    LET live == LiveEntries(img, fat)
    IN \A j, k \in 1..Len(live) :
        (j # k /\ live[j].dir = live[k].dir) => live[j].e.id # live[k].e.id

\* every chain of a live entry ends with an end-of-chain code
ChainsEnd(img, fat) ==
    LET live == LiveEntries(img, fat)
    IN \A k \in 1..Len(live) :
        LET ch == follow_chain(fat, live[k].e.fc).chain
        IN \A i \in 1..Len(ch) :
            /\ ch[i] \in ClusterRange
            /\ InFat(fat, ch[i])
            /\ i = Len(ch) => get_fat_entry(fat, ch[i]) >= FAT_EOF_MIN

\* a consistent volume, its shadow flushed
Consistent ==
    /\ ~fat_dirty
    /\ FatOnDisk(image, fat_data)
    /\ SingleOwner(image, fat_data)
    /\ NoDuplicateNames(image, fat_data)
    /\ ChainsEnd(image, fat_data)

Mutations ==
    {"write_file", "delete_file", "create_directory", "delete_directory",
     "set_attributes", "rename_entry"}

\* the latest step was a call of the operation op
Called(op) == nops' = nops + 1 /\ res'.op = op

\* the directory of the path's last component, and whether it has a free record
ParentOf(path) == TargetDirChecked(image, fat_data, Front(path))

HasFreeSlot(dc) ==
    LET d == DirSectorList(fat_data, dc)
    IN d.err = "" /\ FirstSlot(image, d.secs, is_free) # 0

\* the listed entry the path's last component names in its directory: 0 if none
ListedAt(img, fat, path) ==
    LET t == TargetDirChecked(img, fat, Front(path))
        r == read_directory(img, fat, t.dir)
    IN IF t.err # "" \/ r.err # "" THEN 0 ELSE FirstNamed(r.entries, Last(path))

\* the volume as a new handle sees it after close(): the shadow flushed,
\* then loaded again from the first FAT copy
ReopenedFat == _load_fat(flush(Now).img)

-----------------------------------------------------------------------------
(* C1  Write/read identity.  On a consistent volume opened read-write, a   *)
(* write_file(p, d) into an existing directory that has a free record,     *)
(* with at least ceil(len(d) / cluster_size) free clusters and p not a     *)
(* directory, returns, and read_file(p) then returns exactly d, also from  *)
(* a handle opened after the volume was closed.                            *)

C1_Precondition(path, data) ==
    /\ ~readonly
    /\ Consistent
    /\ ParentOf(path).err = ""
    /\ HasFreeSlot(ParentOf(path).dir)
    /\ Cardinality(FreeClusters(fat_data)) >= ClustersFor(Len(data))
    /\ LET k == ListedAt(image, fat_data, path)
       IN k = 0 \/ ~is_directory(read_directory(image, fat_data, ParentOf(path).dir).entries[k])

C1_RoundTrip ==
    /\ res'.err = ""
    /\ read_file(image', fat_data', res'.path) = [err |-> "", data |-> Units(res'.data)]
    /\ read_file(flush(Now)'.img, ReopenedFat', res'.path)
            = [err |-> "", data |-> Units(res'.data)]

C1_WriteReadIdentity ==
    [][(Called("write_file") /\ C1_Precondition(res'.path, res'.data)) => C1_RoundTrip]_vars

\* a file of cluster_size + 1 bytes was written and reads back
C1_Witness ==
    /\ res.op = "write_file" /\ res.err = ""
    /\ Len(res.data) = CLUSTER_SIZE + 1
    /\ read_file(image, fat_data, res.path) = [err |-> "", data |-> Units(res.data)]

-----------------------------------------------------------------------------
(* C2  Single owner.  After any sequence of mutations of a consistent      *)
(* volume, whenever the latest call returned, every cluster whose FAT      *)
(* entry is neither FREE nor bad lies in exactly one chain reachable from  *)
(* a live directory entry.                                                 *)

C2_SingleOwner ==
    (res.op \in Mutations /\ res.err = "") => SingleOwner(image, fat_data)

-----------------------------------------------------------------------------
(* C3  All-or-nothing.  If write_file, delete_file, create_directory or    *)
(* delete_directory raises, no directory sector and no FAT sector of the   *)
(* image has changed, the shadow is the one before the call, and an        *)
(* existing file a failed write_file was to replace is listed as before.   *)

\* the sectors that hold directory records
DirectorySectors(img, fat) ==
    LET live == LiveEntries(img, fat)
    IN {geo.dir_start + i - 1 : i \in 1..geo.dir_sectors}
       \cup UNION {Range(ClusterSectors(follow_chain(fat, live[k].e.fc).chain)) :
                     k \in {j \in 1..Len(live) : is_directory(live[j].e)}}

Raising == {"write_file", "delete_file", "create_directory", "delete_directory"}

C3_Untouched ==
    /\ fat_data' = fat_data
    /\ \A n \in FatSectorSet \cup DirectorySectors(image, fat_data) :
          read_sector(image', n) = read_sector(image, n)
    /\ LiveEntries(image', fat_data') = LiveEntries(image, fat_data)

C3_AllOrNothing ==
    [][(nops' = nops + 1 /\ res'.op \in Raising /\ res'.err # "") => C3_Untouched]_vars

-----------------------------------------------------------------------------
(* C4  Flush discipline.  After a mutation that returned, the shadow is    *)
(* not dirty and every FAT copy on disk equals the shadow, whatever calls  *)
(* raised on the handle before.                                            *)

C4_FlushDiscipline ==
    (res.op \in Mutations /\ res.err = "") =>
        (~fat_dirty /\ FatOnDisk(image, fat_data))

-----------------------------------------------------------------------------
(* C7  Delete frees.  When delete_file(p) returns right after a            *)
(* write_file(p, d) that returned, every cluster of p's chain is FREE in   *)
(* the shadow and in every FAT copy on disk, the record that held p        *)
(* starts with 0xE5, and p is no longer listed.                            *)

\* the slot of the listed entry named n in the directory: 0 when none
ListedSlot(img, secs, n) ==
    LET Is(k) == /\ ~is_free(SlotCell(img, secs, k))
                 /\ ~is_volume_label(SlotCell(img, secs, k))
                 /\ NameIs(SlotCell(img, secs, k), n)
                 /\ \A j \in 1..k : ~is_end(SlotCell(img, secs, j))
    IN IF \E k \in 1..NumSlots(secs) : Is(k)
       THEN CHOOSE k \in 1..NumSlots(secs) : Is(k) /\ \A j \in 1..(k - 1) : ~Is(j)
       ELSE 0

C7_Freed(path) ==
    LET dc == ParentOf(path).dir
        secs == DirSectorList(fat_data, dc).secs
        k == ListedSlot(image, secs, Last(path))
        chain == follow_chain(fat_data, SlotCell(image, secs, k).fc).chain
    IN /\ k # 0
       /\ \A i \in 1..Len(chain) : get_fat_entry(fat_data', chain[i]) = FAT_FREE
       /\ FatOnDisk(image', fat_data')
       /\ SlotCell(image', secs, k).b0 = "E5"
       /\ ListedAt(image', fat_data', path) = 0

C7_DeleteFrees ==
    [][(/\ res.op = "write_file" /\ res.err = ""
        /\ Called("delete_file") /\ res'.path = res.path /\ res'.err = "")
       => C7_Freed(res.path)]_vars

-----------------------------------------------------------------------------
(* C8  Overwrite idempotence.  When write_file(p, d) returns twice in a    *)
(* row, the second call leaves the number of free clusters as it was,      *)
(* exactly one listed entry named p in its directory, and read_file(p)     *)
(* returns d.                                                              *)

\* how many listed entries of the directory carry the name
CountNamed(img, fat, dc, n) ==
    LET r == read_directory(img, fat, dc)
    IN Cardinality({i \in 1..Len(r.entries) : NameIs(r.entries[i], n)})

C8_Same(path, data) ==
    /\ Cardinality(FreeClusters(fat_data')) = Cardinality(FreeClusters(fat_data))
    /\ CountNamed(image', fat_data', ParentOf(path).dir, Last(path)) = 1
    /\ read_file(image', fat_data', path) = [err |-> "", data |-> Units(data)]

C8_OverwriteIdempotence ==
    [][(/\ res.op = "write_file" /\ res.err = ""
        /\ Called("write_file") /\ res'.path = res.path /\ res'.data = res.data
        /\ res'.err = "")
       => C8_Same(res.path, res.data)]_vars

-----------------------------------------------------------------------------
(* C5  Corruption detection.  read_file of a file whose chain loops, or    *)
(* shares a cluster with the chain of another file, raises CorruptedDisk   *)
(* and returns no bytes.                                                   *)

RECURSIVE NthCluster(_, _, _)
\* the cluster k links after c: the walk stays where the chain ends
NthCluster(fat, c, k) ==
    IF k = 0 \/ ~(2 <= c /\ c <= CHAIN_MAX) THEN c
    ELSE NthCluster(fat, get_fat_entry(fat, c), k - 1)

\* the clusters of the chain that starts at c
ChainClusters(fat, c) ==
    {x \in {NthCluster(fat, c, k) : k \in 0 .. (TOTAL_CLUSTERS + 2)} :
        2 <= x /\ x <= CHAIN_MAX}

\* the chain never ends: more links than there are clusters
Looped(fat, c) ==
    LET x == NthCluster(fat, c, TOTAL_CLUSTERS + 2) IN 2 <= x /\ x <= CHAIN_MAX

\* the chain of the listed root entry k shares a cluster with another's
CrossLinked(img, fat, k) ==
    LET entries == read_directory(img, fat, ROOT).entries
    IN \E j \in 1..Len(entries) :
        /\ j # k
        /\ ChainClusters(fat, entries[j].fc) \cap ChainClusters(fat, entries[k].fc) # {}

C5_CorruptionDetected ==
    LET entries == read_directory(image, fat_data, ROOT).entries
        k == FirstNamed(entries, Last(res.path))
    IN (res.op = "read_file" /\ k # 0
        /\ (Looped(fat_data, entries[k].fc) \/ CrossLinked(image, fat_data, k)))
       => (res.err = "CorruptedDisk" /\ res.out = <<>>)

-----------------------------------------------------------------------------
(* C6  Chain termination.  For every FAT content and every start cluster   *)
(* follow_chain ends: it accumulates clusters while the value read lies    *)
(* in [0x002, 0xFEF], raises CorruptedDisk at the first cluster it meets   *)
(* again, and a chain it returns holds no cluster twice.                   *)

C6_Accumulated ==
    /\ \A i, j \in 1..Len(walk.chain) : i # j => walk.chain[i] # walk.chain[j]
    /\ \A i \in 1..Len(walk.chain) :
          /\ 2 <= walk.chain[i] /\ walk.chain[i] <= CHAIN_MAX
          /\ walk.chain[i] = NthCluster(fat_data, walk.start, i - 1)
    /\ walk.pc = "raised" =>
          /\ walk.cluster \in Range(walk.chain)
          /\ follow_chain(fat_data, walk.start)
                = [err |-> "CorruptedDisk", chain |-> walk.chain]
    /\ walk.pc = "done" =>
          /\ walk.start = 0 \/ ~(2 <= walk.cluster /\ walk.cluster <= CHAIN_MAX)
          /\ follow_chain(fat_data, walk.start) = [err |-> "", chain |-> walk.chain]

C6_ChainTermination ==
    /\ []C6_Accumulated
    /\ (walk.pc = "loop") ~> (walk.pc \in {"done", "raised"})

\* follow_chain raised on a chain that runs into itself after two clusters
C6_Witness ==
    /\ walk.pc = "raised"
    /\ Len(walk.chain) >= 2
    /\ walk.cluster # walk.start

-----------------------------------------------------------------------------
(* C9  DiskFull leaves the FAT alone.  When fewer than n clusters have a   *)
(* FREE entry, allocate_chain(n) raises DiskFull and leaves every byte of  *)
(* the shadow and the dirty flag as they were.                             *)

C9_DiskFullUnchanged ==
    [][(Called("allocate_chain") /\ Cardinality(FreeClusters(fat_data)) < res'.arg)
       => (res'.err = "DiskFull" /\ fat_data' = fat_data /\ fat_dirty' = fat_dirty)]_vars

-----------------------------------------------------------------------------
(* C10  Allocation shape.  With at least n >= 1 free clusters,             *)
(* allocate_chain(n) returns the n lowest free clusters in ascending       *)
(* order, linked so that follow_chain from the first returns them and the  *)
(* last holds an end-of-chain code; free_chain of the first then makes     *)
(* every one of them FREE, and allocate_chain(n) returns them again.       *)

\* the members of a set of numbers in ascending order
Ascending(S) ==
    CHOOSE s \in [1..Cardinality(S) -> S] : \A i, j \in 1..Cardinality(S) : i < j => s[i] < s[j]

C10_Shape(n) ==
    /\ res'.err = ""
    /\ res'.out = SubSeq(Ascending(FreeClusters(fat_data)), 1, n)
    /\ follow_chain(fat_data', res'.out[1]) = [err |-> "", chain |-> res'.out]
    /\ get_fat_entry(fat_data', res'.out[n]) >= FAT_EOF_MIN
    /\ get_fat_entry(fat_data', res'.out[n]) <= FAT_EOF_MAX

C10_Freed(chain) ==
    /\ res'.err = ""
    /\ \A i \in 1..Len(chain) :
          InFat(fat_data', chain[i]) /\ get_fat_entry(fat_data', chain[i]) = FAT_FREE
    /\ LET again == allocate_chain(fat_data', fat_dirty', Len(chain))
       IN again.err = "" /\ again.chain = chain

C10_AllocationShape ==
    [][/\ (/\ Called("allocate_chain") /\ res'.arg >= 1
           /\ Cardinality(FreeClusters(fat_data)) >= res'.arg) => C10_Shape(res'.arg)
       /\ (/\ res.op = "allocate_chain" /\ res.err = "" /\ res.out # <<>>
           /\ Called("free_chain") /\ res'.arg = res.out[1]) => C10_Freed(res.out)]_vars

\* two clusters were allocated that are not neighbours
C10_Witness ==
    /\ res.op = "allocate_chain" /\ res.err = ""
    /\ Len(res.out) = 2
    /\ res.out[2] > res.out[1] + 1
    /\ follow_chain(fat_data, res.out[1]).chain = res.out

-----------------------------------------------------------------------------
(* C11  Pack/unpack round trip.  For clusters c and c + 1 with entries     *)
(* inside the shadow, after set_fat_entry(c, v); set_fat_entry(c + 1, v')  *)
(* get_fat_entry(c) is v and get_fat_entry(c + 1) is v'; a set_fat_entry   *)
(* changes the value of no other entry and no byte outside its word, for   *)
(* even and for odd c.                                                     *)

C11_OthersKept(c) ==
    /\ \A d \in 0 .. (TOTAL_CLUSTERS + 2) :
          d # c => get_fat_entry(fat_data', d) = get_fat_entry(fat_data, d)
    /\ \A k \in 1..Len(fat_data) :
          k \notin {FatOffset(c) + 1, FatOffset(c) + 2} => fat_data'[k] = fat_data[k]

C11_PackRoundTrip ==
    [][/\ (Called("set_fat_entry") /\ res'.err = "")
            => /\ get_fat_entry(fat_data', res'.arg) = res'.out[1]
               /\ fat_dirty'
               /\ C11_OthersKept(res'.arg)
       /\ (/\ res.op = "set_fat_entry" /\ res.err = ""
           /\ Called("set_fat_entry") /\ res'.err = "" /\ res'.arg = res.arg + 1)
            => /\ get_fat_entry(fat_data', res.arg) = res.out[1]
               /\ get_fat_entry(fat_data', res.arg + 1) = res'.out[1]]_vars

\* an odd cluster was set to 0xAAA next to an even one holding 0x555
C11_Witness ==
    /\ res.op = "set_fat_entry" /\ res.err = ""
    /\ res.arg % 2 = 1
    /\ res.out = <<2730>>
    /\ get_fat_entry(fat_data, res.arg) = 2730
    /\ get_fat_entry(fat_data, res.arg - 1) = 1365

-----------------------------------------------------------------------------
(* C12  Mirrored FATs.  After flush() has returned, every FAT copy on disk *)
(* is byte for byte the shadow, hence equal to every other copy, and the   *)
(* dirty flag is false.                                                    *)

-----------------------------------------------------------------------------
(* C13  Path resolution.  When a component of the path before the last is  *)
(* missing or names a regular file, every operation that takes the path    *)
(* fails with NotFound and changes nothing: neither the image nor the FAT  *)
(* shadow nor its dirty flag.                                              *)

PathOps ==
    {"write_file", "delete_file", "set_attributes", "rename_entry",
     "create_directory", "delete_directory"}

\* the path has a component before the last that no directory answers to
BadPrefix(img, fat, path) ==
    /\ Len(path) > 1
    /\ \E i \in 1..(Len(path) - 1) :
          LET at == resolve_path(img, fat, SubSeq(path, 1, i))
          IN at.err # "" \/ at.has

C13_PathResolution ==
    [][/\ (/\ nops' = nops + 1 /\ res'.op \in PathOps
           /\ BadPrefix(image, fat_data, res'.path))
          => /\ res'.err = "NotFound"
             /\ image' = image /\ fat_data' = fat_data /\ fat_dirty' = fat_dirty
       /\ \A path \in Paths :
            BadPrefix(image, fat_data, path)
               => read_file(image, fat_data, path).err = "NotFound"]_vars

-----------------------------------------------------------------------------
(* C14  set_attributes(p, a) that returns, p being a listed entry of its   *)
(* directory: the record of p keeps its directory bit, its other attribute *)
(* bits are those of a, and nothing else of the record changes.            *)

DirectoryBit(attr) == IF BitSet(attr, ATTR_DIRECTORY) THEN ATTR_DIRECTORY ELSE 0

\* the record of the listed entry the path names, before and after the step
C14_Updated(path, attributes) ==
    LET t    == ParentOf(path)
        d    == DirSectorList(fat_data, t.dir)
        k    == ListedSlot(image, d.secs, Last(path))
        old  == SlotCell(image, d.secs, k)
        new  == SlotCell(image', d.secs, k)
    IN (t.err = "" /\ d.err = "" /\ k # 0)
          => /\ DirectoryBit(new.attr) = DirectoryBit(old.attr)
             /\ new.attr - DirectoryBit(new.attr)
                   = attributes - DirectoryBit(attributes)
             /\ [new EXCEPT !.attr = old.attr] = old

C14_DirectoryBitKept ==
    [][(Called("set_attributes") /\ res'.err = "")
          => C14_Updated(res'.path, res'.arg)]_vars

\* a directory was made read-only, and a file was given the directory bit
C14_Witness ==
    /\ res.op = "set_attributes" /\ res.err = ""
    /\ LET t == ParentOf(res.path)
           d == DirSectorList(fat_data, t.dir)
           k == ListedSlot(image, d.secs, Last(res.path))
       IN /\ t.err = "" /\ d.err = "" /\ k # 0
          /\ \/ /\ res.arg = ATTR_READONLY
                /\ SlotCell(image, d.secs, k).attr = ATTR_DIRECTORY + ATTR_READONLY
             \/ /\ res.arg = ATTR_DIRECTORY
                /\ SlotCell(image, d.secs, k).attr = 0
                /\ SlotCell(image, d.secs, k).size > 0

-----------------------------------------------------------------------------
(* C15  rename_entry(p, new), p being a listed entry of its directory.     *)
(* When another listed entry of the directory is named new, the call       *)
(* raises and changes nothing.  Otherwise it returns having rewritten the  *)
(* name of p's own record and nothing else: new then names an entry with   *)
(* the first cluster, size and attributes p had, the old name names none,  *)
(* and no two listed entries of the directory share a name.                *)

\* the listed entries of the sectors have pairwise different names
DistinctNames(img, secs) ==
    LET l == Listed(img, secs, 1)
    IN \A i, j \in 1..Len(l) : i # j => l[i].id # l[j].id

C15_Renamed(path, new_name) ==
    LET t   == ParentOf(path)
        d   == DirSectorList(fat_data, t.dir)
        k   == ListedSlot(image, d.secs, Last(path))
        kn  == ListedSlot(image, d.secs, new_name)
        old == SlotCell(image, d.secs, k)
        at  == SlotPlace(d.secs, k)
    IN (t.err = "" /\ d.err = "" /\ k # 0)
          => IF kn # 0 /\ kn # k
             THEN /\ res'.err # ""
                  /\ image' = image /\ fat_data' = fat_data /\ fat_dirty' = fat_dirty
             ELSE /\ res'.err = ""
                  /\ image' = [image EXCEPT ![at[1]] =
                                  PutCell(image, at, [old EXCEPT !.id = new_name])]
                  /\ fat_data' = fat_data /\ fat_dirty' = fat_dirty
                  /\ ListedSlot(image', d.secs, new_name) = k
                  /\ new_name # Last(path) => ListedSlot(image', d.secs, Last(path)) = 0
                  /\ DistinctNames(image', d.secs)

C15_RenameKeepsEntry ==
    [][Called("rename_entry") => C15_Renamed(res'.path, res'.arg)]_vars

\* a file with clusters was renamed, and a rename onto a listed name raised
C15_Witness ==
    /\ res.op = "rename_entry"
    /\ LET t == ParentOf(res.path)
           d == DirSectorList(fat_data, t.dir)
           k == ListedSlot(image, d.secs, res.arg)
       IN /\ t.err = "" /\ d.err = ""
          /\ \/ /\ res.err = "" /\ res.arg # Last(res.path) /\ k # 0
                /\ SlotCell(image, d.secs, k).size > 0
                /\ SlotCell(image, d.secs, k).fc \in ClusterRange
             \/ /\ res.err = "DiskError" /\ k # 0
                /\ ListedSlot(image, d.secs, Last(res.path)) \notin {0, k}

-----------------------------------------------------------------------------
(* C16  Dot invariants.  After create_directory(p) has returned for a p    *)
(* that was not listed before, the parent lists p as a directory of size 0 *)
(* whose first cluster has an end-of-chain FAT entry, and that cluster     *)
(* holds '.' with the cluster itself, then '..' with the parent's cluster  *)
(* (0 for the root), then only zero records.                               *)

\* the records of a cluster, in order
ClusterCells(img, c) ==
    LET secs == ClusterSectors(<<c>>)
    IN [k \in 1..NumSlots(secs) |-> SlotCell(img, secs, k)]

C16_Made(path) ==
    LET t == ParentOf(path)
        d == DirSectorList(fat_data', t.dir)
        k == ListedSlot(image', d.secs, Last(path))
        e == SlotCell(image', d.secs, k)
        cells == ClusterCells(image', e.fc)
    IN (t.err = "" /\ ListedAt(image, fat_data, path) = 0)
          => /\ d.err = "" /\ k # 0
             /\ e.attr = ATTR_DIRECTORY /\ e.size = 0
             /\ e.fc \in ClusterRange
             /\ get_fat_entry(fat_data', e.fc) \in FAT_EOF_MIN..FAT_EOF_MAX
             /\ cells[1] = DirectoryEntry(DOT, ATTR_DIRECTORY, e.fc, 0)
             /\ cells[2] = DirectoryEntry(DOTDOT, ATTR_DIRECTORY,
                                          IF t.dir = ROOT THEN 0 ELSE t.dir, 0)
             /\ \A i \in 3..Len(cells) : cells[i] = ZeroCell

C16_DotInvariants ==
    [][(Called("create_directory") /\ res'.err = "") => C16_Made(res'.path)]_vars

\* a directory was created inside another directory
C16_Witness ==
    /\ res.op = "create_directory" /\ res.err = "" /\ Len(res.path) = 2
    /\ LET t == ParentOf(res.path)
           d == DirSectorList(fat_data, t.dir)
           k == ListedSlot(image, d.secs, Last(res.path))
       IN /\ t.err = "" /\ t.dir # ROOT /\ d.err = "" /\ k # 0
          /\ ClusterCells(image, SlotCell(image, d.secs, k).fc)[2].fc = t.dir

-----------------------------------------------------------------------------
(* C17  Directory grow.  A call that adds an entry under a name not yet    *)
(* listed: into a subdirectory without a free record, it appends exactly   *)
(* one cluster to the directory's chain, linked from the former last       *)
(* cluster, end-of-chain, holding the new entry in its first record and    *)
(* zero records after it; into a directory with a free record, it leaves   *)
(* the chain as it was; into a root directory without a free record, it    *)
(* raises DirectoryFull once the clusters the call needs were there to     *)
(* allocate, and the slot search on such a root raises DirectoryFull in    *)
(* every state.                                                            *)

Adding == {"write_file", "create_directory"}

\* the clusters the call allocates before it looks for a directory record
ClustersNeeded(call) ==
    IF call.op = "write_file" THEN ClustersFor(Len(call.data)) ELSE 1

RootFull == FirstSlot(image, DirSectorList(fat_data, ROOT).secs, is_free) = 0

C17_Added(path) ==
    LET t      == ParentOf(path)
        d      == DirSectorList(fat_data, t.dir)
        full   == FirstSlot(image, d.secs, is_free) = 0
        before == follow_chain(fat_data, t.dir).chain
        after  == follow_chain(fat_data', t.dir).chain
        new    == after[Len(after)]
        cells  == ClusterCells(image', new)
    IN (t.err = "" /\ d.err = "" /\ ListedAt(image, fat_data, path) = 0)
          => /\ (/\ t.dir = ROOT /\ full
                 /\ ClustersNeeded(res') <= Cardinality(FreeClusters(fat_data)))
                   => res'.err = "DirectoryFull"
             /\ (t.dir # ROOT /\ full /\ res'.err = "")
                   => /\ Len(after) = Len(before) + 1
                      /\ SubSeq(after, 1, Len(before)) = before
                      /\ get_fat_entry(fat_data, new) = FAT_FREE
                      /\ get_fat_entry(fat_data', new) \in FAT_EOF_MIN..FAT_EOF_MAX
                      /\ NameIs(cells[1], Last(path))
                      /\ \A i \in 2..Len(cells) : cells[i] = ZeroCell
             /\ (t.dir # ROOT /\ ~full /\ res'.err = "") => after = before

C17_DirectoryGrow ==
    [][/\ (nops' = nops + 1 /\ res'.op \in Adding) => C17_Added(res'.path)
       /\ RootFull => _find_free_dir_slot(Now, ROOT).s.err = "DirectoryFull"]_vars

\* a full subdirectory has grown by a cluster
C17_Witness ==
    /\ res.op \in Adding /\ res.err = "" /\ Len(res.path) = 2
    /\ LET t == ParentOf(res.path)
       IN /\ t.err = "" /\ t.dir # ROOT
          /\ Len(follow_chain(fat_data, t.dir).chain) = 2
          /\ NameIs(ClusterCells(image, follow_chain(fat_data, t.dir).chain[2])[1],
                    Last(res.path))

-----------------------------------------------------------------------------
(* C18  Recursive delete.  delete_directory(d, recursive = true) on a      *)
(* listed directory that holds only files returns, the number of FREE FAT  *)
(* entries has then risen by the clusters of the directory's own chain     *)
(* plus, for each file, its size divided by the cluster size and rounded   *)
(* up, and d is no longer listed in its parent.                            *)

RECURSIVE FileClusters(_)
\* the clusters the files hold, each file's size rounded up on its own
FileClusters(entries) ==
    IF entries = <<>> THEN 0
    ELSE ClustersFor(entries[1].size) + FileClusters(Tail(entries))

RECURSIVE TotalBytes(_)
TotalBytes(entries) ==
    IF entries = <<>> THEN 0 ELSE entries[1].size + TotalBytes(Tail(entries))

\* the directory the path names holds files only, no directory
FilesOnly(img, fat, path) ==
    LET t == TargetDirChecked(img, fat, Front(path))
        d == DirSectorList(fat, t.dir)
        k == ListedSlot(img, d.secs, Last(path))
        e == SlotCell(img, d.secs, k)
        c == read_directory(img, fat, e.fc)
    IN /\ t.err = "" /\ d.err = "" /\ k # 0
       /\ is_directory(e) /\ e.fc \in ClusterRange
       /\ c.err = ""
       /\ \A i \in 1..Len(NonDot(c.entries)) : ~is_directory(NonDot(c.entries)[i])

\* the files of the directory the path names
FilesOf(img, fat, path) ==
    LET t == TargetDirChecked(img, fat, Front(path))
        d == DirSectorList(fat, t.dir)
        e == SlotCell(img, d.secs, ListedSlot(img, d.secs, Last(path)))
    IN NonDot(read_directory(img, fat, e.fc).entries)

\* the clusters of the chain of the directory the path names
OwnClusters(img, fat, path) ==
    LET t == TargetDirChecked(img, fat, Front(path))
        d == DirSectorList(fat, t.dir)
        e == SlotCell(img, d.secs, ListedSlot(img, d.secs, Last(path)))
    IN Len(follow_chain(fat, e.fc).chain)

C18_Deleted(path, file_clusters) ==
    /\ res'.err = ""
    /\ Cardinality(FreeClusters(fat_data'))
          = Cardinality(FreeClusters(fat_data))
            + file_clusters + OwnClusters(image, fat_data, path)
    /\ ListedAt(image', fat_data', path) = 0

-----------------------------------------------------------------------------
(* C19  delete_directory(d) on a name of an existing directory.  When the  *)
(* name is not listed there the call raises NotFound; when it is a regular *)
(* file, DiskError; when it is a directory with a listed entry other than  *)
(* '.' and '..' and recursive is false, DiskError.  In all three cases the *)
(* image, the FAT shadow and its dirty flag stay as they were.             *)

\* the case the call falls in: "missing", "file", "not empty", or "other"
C19_Case(path, recursive) ==
    LET t == ParentOf(path)
        r == read_directory(image, fat_data, t.dir)
        k == FirstNamed(r.entries, Last(path))
        c == read_directory(image, fat_data, r.entries[k].fc)
    IN IF t.err # "" \/ r.err # "" THEN "other"
       ELSE IF k = 0 THEN "missing"
       ELSE IF ~is_directory(r.entries[k]) THEN "file"
       ELSE IF /\ recursive = 0 /\ c.err = ""
               /\ \E i \in 1..Len(c.entries) : c.entries[i].id \notin {DOT, DOTDOT}
       THEN "not empty"
       ELSE "other"

C19_Refused(path, recursive) ==
    LET case == C19_Case(path, recursive)
    IN case # "other"
          => /\ res'.err = (IF case = "missing" THEN "NotFound" ELSE "DiskError")
             /\ image' = image /\ fat_data' = fat_data /\ fat_dirty' = fat_dirty

C19_NonEmptyRefused ==
    [][Called("delete_directory") => C19_Refused(res'.path, res'.arg)]_vars

\* a directory holding a file was refused without recursive
C19_Witness ==
    /\ res.op = "delete_directory" /\ res.arg = 0 /\ res.err = "DiskError"
    /\ C19_Case(res.path, 0) = "not empty"

-----------------------------------------------------------------------------
(* C20  On a volume opened read-only every write_sector raises DiskError,  *)
(* and no call, flush and close included, changes a byte of the image.     *)

C20_ReadOnlyImage ==
    [][readonly => /\ image' = image
                   /\ \A n \in DOMAIN image :
                         /\ write_sector(Now, n, ZeroSector).err = "DiskError"
                         /\ write_sector(Now, n, ZeroSector).img = image]_vars

\* a write on the read-only handle got as far as changing the FAT shadow,
\* raised, and the flush after it raised as well
C20_Witness ==
    /\ readonly
    /\ res.op \in {"flush", "close"} /\ res.err = "DiskError"
    /\ fat_dirty
    /\ ~FatOnDisk(image, fat_data)

-----------------------------------------------------------------------------
(* C21  Closing a volume flushes first.  After close() the FAT shadow is   *)
(* not dirty and equals every FAT copy on the image, and the file handle   *)
(* is released.                                                            *)

C21_CloseFlushes ==
    [][res'.op = "close"
          => /\ _file' = "closed"
             /\ ~fat_dirty'
             /\ FatOnDisk(image', fat_data')]_vars

\* close() found the shadow dirty, wrote it and released the handle
C21_Witness ==
    /\ res.op = "close" /\ res.err = "" /\ _file = "closed" /\ ~readonly
    /\ ~fat_dirty /\ FatOnDisk(image, fat_data)
    /\ AllocatedClusters(fat_data) # {}
    /\ LiveEntries(image, fat_data) = <<>>

-----------------------------------------------------------------------------
(* C26  get_partition(i) raises InvalidPartition exactly when i < 0 or     *)
(* i >= partition_count; otherwise it returns the i-th partition, counted  *)
(* from 0, and the calls that follow are made on that partition.           *)

C26_GetPartition ==
    [][res'.op = "get_partition" =>
          IF res'.arg < 0 \/ res'.arg >= Len(_partitions)
          THEN res'.err = "InvalidPartition" /\ res'.out = <<>> /\ geo' = geo
          ELSE /\ res'.err = ""
               /\ res'.out = <<res'.arg + 1>>
               /\ geo'.fat_start = VolumeStart(res'.arg + 1) + 1
               /\ fat_data' = _partitions'[res'.arg + 1].fat]_vars

\* on a disk of two partitions the last index returned the second
\* partition, after calls that changed the first
C26_Witness ==
    /\ Len(_partitions) = NumPartitions
    /\ res.op = "get_partition" /\ res.arg = NumPartitions - 1 /\ res.err = ""
    /\ Selected = NumPartitions
    /\ _partitions[1].fat # _partitions[NumPartitions].fat

-----------------------------------------------------------------------------
(* C27  Partition isolation.  A call made on one partition leaves every    *)
(* other partition's FAT shadow and dirty flag and every sector of every   *)
(* other partition's volume unchanged; a flush, of one partition or inside *)
(* the disk's flush() and close(), writes only FAT sectors of the          *)
(* partition flushed.                                                      *)

\* the sectors the step changed
Written == {n \in (DOMAIN image) \cup (DOMAIN image') :
                read_sector(image', n) # read_sector(image, n)}

-----------------------------------------------------------------------------
(* C28  Hard-disk FAT auto-size.  When the first directory-shaped sector   *)
(* of the scan is at offset k from the volume's start, the detected FAT    *)
(* size is (k - 1) / 2 and the root directory derived from it starts at    *)
(* that very sector, volume_start + k.                                     *)

\* the offset of the first directory-shaped sector, found sector by sector
ScanHit(k) ==
    /\ k \in 1..MaxScan
    /\ _is_directory_sector(image[res.arg + k])
    /\ \A h \in 1..(k - 1) : ~_is_directory_sector(image[res.arg + h])

C28_AutoSize ==
    res.op = "_detect_fat_size" =>
        \A k \in 1..MaxScan :
            ScanHit(k) => /\ 2 * res.out[1] = k - 1
                          /\ geo.dir_start = res.arg + k

\* what does hold: for odd k from 3 on the root directory starts at k
C28_OddOffsets ==
    res.op = "_detect_fat_size" =>
        \A k \in 3..MaxScan :
            (ScanHit(k) /\ k % 2 = 1) => /\ 2 * res.out[1] = k - 1
                                         /\ geo.dir_start = res.arg + k

-----------------------------------------------------------------------------
(* C22  Write ordering.  In every write_file that returned, of a new file  *)
(* or over an existing one, the sectors are written in the order: the data *)
(* of every cluster, then the directory, then the FAT copies.  No sector   *)
(* other than a data sector of the file is written before the last of      *)
(* them, and no FAT sector before a sector that is not of the FAT.         *)

\* the sectors of the clusters of the file as the call left it
DataSectorsOf(path) ==
    LET r == resolve_path(image', fat_data', path)
        secs == ClusterSectors(follow_chain(fat_data', r.entry.fc).chain)
    IN {secs[k] : k \in 1..Len(secs)}

\* data first, FAT last in the sequence of sectors written
DataThenDirThenFat(log, data) ==
    \A i, j \in 1..Len(log) :
        i < j => /\ log[j] \in data => log[i] \in data
                 /\ log[i] \in FatSectorSet => log[j] \in FatSectorSet

C22_WriteOrdering ==
    [][(Called("write_file") /\ res'.err = "") =>
          DataThenDirThenFat(write_file(Now, res'.path, res'.data).log,
                             DataSectorsOf(res'.path))]_vars

\* what does hold: the order is kept when no file of the name existed
C22_NewFileOrdering ==
    [][(Called("write_file") /\ res'.err = ""
            /\ ~resolve_path(image, fat_data, res'.path).has) =>
          DataThenDirThenFat(write_file(Now, res'.path, res'.data).log,
                             DataSectorsOf(res'.path))]_vars

-----------------------------------------------------------------------------
(* C23  CP/M round trip.  After write_file(name, d) at user 0 returned,    *)
(* for d of every length in CpmLengths, read_file(name) returns exactly d. *)

C23_RoundTrip ==
    [][(Called("write_file") /\ res'.err = "" /\ res'.arg = 0) =>
          /\ cpm_read_file(image', res'.path[1]).err = ""
          /\ cpm_read_file(image', res'.path[1]).out = res'.data]_vars

-----------------------------------------------------------------------------
(* C24  CP/M delete.  After delete_file(name) returned, every directory    *)
(* entry of the name, of every extent and of every user number 0..15, has  *)
(* 0xE5 in its first byte, and list_files has no file of the name.         *)

C24_DeleteAll ==
    [][(Called("delete_file") /\ res'.err = "") =>
          /\ \A k \in CpmSlots :
                SlotEntry(image', k).name = res'.path[1] => SlotEntry(image', k).b0 = CPM_DELETED
          /\ \A f \in list_files(image') : f[2] # res'.path[1]]_vars

\* what does hold: the entries of the file found, when its user number is
\* not 0, are deleted
C24_DeleteFound ==
    [][(Called("delete_file") /\ res'.err = "" /\ find_file(image, res'.path[1]).user # 0) =>
          \A k \in CpmSlots :
              (SlotEntry(image, k).name = res'.path[1]
                  /\ SlotEntry(image, k).b0 = find_file(image, res'.path[1]).user)
                  => SlotEntry(image', k).b0 = CPM_DELETED]_vars

-----------------------------------------------------------------------------
(* C25  CP/M extent layout.  After write_file of s bytes returned, with    *)
(* records = max(1, ceil(s / record size)), the directory holds exactly    *)
(* ceil(records / records per extent) live entries of the name, numbered   *)
(* 0, 1, ... with EL = extent mod and S2 = extent div the EL range, each   *)
(* with at most CPM_BLOCKS_PER_EXTENT block pointers and at most           *)
(* CPM_RECORDS_PER_EXTENT records, all but the last with exactly           *)
(* CPM_RECORDS_PER_EXTENT.                                                 *)

\* the slots of the live entries of the name
LiveSlots(img, name) ==
    {k \in CpmSlots : Listable(SlotEntry(img, k)) /\ SlotEntry(img, k).name = name}

RecordsOf(len) == AtLeastOne((len + CPM_RECORD_SIZE - 1) \div CPM_RECORD_SIZE)
ExtentsFor(len) == (RecordsOf(len) + CPM_RECORDS_PER_EXTENT - 1) \div CPM_RECORDS_PER_EXTENT

ExtentLayout(img, name, len) ==
    /\ Cardinality(LiveSlots(img, name)) = ExtentsFor(len)
    /\ \A x \in 0..(ExtentsFor(len) - 1) :
          \E k \in LiveSlots(img, name) :
              LET e == SlotEntry(img, k)
              IN /\ e.el = x % CPM_EL_RANGE /\ e.s2 = x \div CPM_EL_RANGE
                 /\ Len(SelectSeq(e.ptr, NonZero)) <= CPM_BLOCKS_PER_EXTENT
                 /\ e.rc <= CPM_RECORDS_PER_EXTENT
                 /\ e.rc = IF x < ExtentsFor(len) - 1 THEN CPM_RECORDS_PER_EXTENT
                           ELSE RecordsOf(len) - x * CPM_RECORDS_PER_EXTENT

C25_ExtentLayout ==
    [][(Called("write_file") /\ res'.err = "") =>
          ExtentLayout(image', res'.path[1], Len(res'.data))]_vars

\* what does hold: the layout of a file written at a user number other
\* than 0 when the directory holds no entry of user 0 with the name
C25_OtherUsers ==
    [][(Called("write_file") /\ res'.err = "" /\ res'.arg # 0
            /\ \A k \in LiveSlots(image, res'.path[1]) : SlotEntry(image, k).b0 # 0) =>
          ExtentLayout(image', res'.path[1], Len(res'.data))]_vars

-----------------------------------------------------------------------------
(* C29  Victor floppy geometry.  The geometry is a function of bit 0 of    *)
(* the flags word at offset 32 of sector 0 and of nothing else: clear, the *)
(* FAT is 1 sector from sector 1, the root directory starts at 3, the data *)
(* at 11, with 1214 clusters; set, the FAT is 2 sectors, the root starts   *)
(* at 5, the data at 13, with 2378 clusters; always 2 FAT copies, 8 root   *)
(* sectors and 4 sectors per cluster.                                      *)

C29_Geometry ==
    res.op = "_read_boot_sector" =>
        geo = IF res.arg % 2 = 0
              THEN [fat_start |-> 1, fat_sectors |-> 1, num_fat_copies |-> 2, dir_start |-> 3,
                    dir_sectors |-> 8, data_start |-> 11, total_clusters |-> 1214,
                    sectors_per_cluster |-> 4]
              ELSE [fat_start |-> 1, fat_sectors |-> 2, num_fat_copies |-> 2, dir_start |-> 5,
                    dir_sectors |-> 8, data_start |-> 13, total_clusters |-> 2378,
                    sectors_per_cluster |-> 4]

\* everything but data_start follows bit 0; data_start is the word at
\* offset 28, and follows bit 0 only when that word is zero
C29_ButDataStart ==
    res.op = "_read_boot_sector" =>
        /\ [geo EXCEPT !.data_start = 0] =
              IF res.arg % 2 = 0
              THEN [fat_start |-> 1, fat_sectors |-> 1, num_fat_copies |-> 2, dir_start |-> 3,
                    dir_sectors |-> 8, data_start |-> 0, total_clusters |-> 1214,
                    sectors_per_cluster |-> 4]
              ELSE [fat_start |-> 1, fat_sectors |-> 2, num_fat_copies |-> 2, dir_start |-> 5,
                    dir_sectors |-> 8, data_start |-> 0, total_clusters |-> 2378,
                    sectors_per_cluster |-> 4]
        /\ image[0].data_start = 0 => geo.data_start = IF res.arg % 2 = 0 THEN 11 ELSE 13
        /\ image[0].data_start # 0 => geo.data_start = image[0].data_start

\* a double-sided boot sector whose word at offset 28 is neither 0 nor 13
C29_Witness ==
    /\ res.op = "_read_boot_sector" /\ res.arg % 2 = 1
    /\ image[0].data_start \notin {0, 13}
    /\ geo.data_start = image[0].data_start
    /\ geo.dir_start = 5 /\ geo.total_clusters = 2378

-----------------------------------------------------------------------------
(* C30  Image sniffer priority.  detect_image_type returns, in this order: *)
(* harddisk for a file of more than 2 MiB whatever sector 0 holds; else    *)
(* ibmpc when sector 0 passes the IBM PC validation (signature 0xAA55,     *)
(* jump byte 0xEB or 0xE9, 512 bytes per sector, sectors per cluster in    *)
(* {1, 2, 4, 8}, num_fats >= 1, fat_size >= 1); else harddisk for label    *)
(* type 1 and device id 1; else cpm for a first byte of 0xFF, 0xE5 or 0x00 *)
(* with a CP/M directory detected; otherwise floppy.                       *)

\* the IBM PC validation of the statement (IBMPCBIOSParameterBlock)
IbmPcValidation(sector0) ==
    /\ sector0.boot_sig = 43605
    /\ sector0.byte0 \in {235, 233}
    /\ sector0.bytes_per_sector = 512
    /\ sector0.sectors_per_cluster \in {1, 2, 4, 8}
    /\ sector0.num_fats >= 1
    /\ sector0.fat_sectors >= 1

\* the order of the statement, the test for ibmpc left open
SnifferOrder(file, ibmpc) ==
    IF file.file_size > 2 * 1024 * 1024 THEN "harddisk"
    ELSE IF ibmpc THEN "ibmpc"
    ELSE IF file.sector0.byte0 = 1 /\ file.sector0.byte1 = 0 /\ file.sector0.device_id = 1
         THEN "harddisk"
    ELSE IF file.sector0.byte0 \in {255, 229, 0}
            /\ \E n \in {76, 94, 1} : file.cpm_valid[n] >= 2
         THEN "cpm"
    ELSE "floppy"

C30_SnifferPriority ==
    (res.op = "detect_image_type" /\ image.file_size >= 512) =>
        res.out = <<SnifferOrder(image, IbmPcValidation(image.sector0))>>

\* what does hold: the order, with the sniffer's own test for ibmpc
C30_SnifferOwnTest ==
    (res.op = "detect_image_type" /\ image.file_size >= 512) =>
        res.out = <<SnifferOrder(image,
                        /\ image.sector0.boot_sig = 43605
                        /\ image.sector0.byte0 \in {235, 233}
                        /\ image.sector0.bytes_per_sector = 512
                        /\ image.sector0.sectors_per_cluster \in {1, 2, 4, 8}
                        /\ image.sector0.reserved_sectors >= 1
                        /\ image.sector0.num_fats \in {1, 2}
                        /\ image.sector0.media_descriptor >= 240)>>

-----------------------------------------------------------------------------
(* C31  parse_image_path.  For every image name ending in one of the three *)
(* extensions, every decimal partition N and every non-empty internal path *)
(* P, IMAGE:N:\P parses to (IMAGE, N, P) and IMAGE:\P to (IMAGE, None, P), *)
(* also when P itself contains an extension.                               *)

C31_ParseImagePath ==
    res.op = "parse_image_path" => res.out = <<res.path, res.arg, res.data>>

\* what does hold: the same when the first extension of the list that
\* occurs anywhere in the path occurs first at the end of the image name
C31_FirstExtension ==
    (res.op = "parse_image_path"
        /\ \E e \in 1..Len(Extensions) :
              /\ find(lower(image), Extensions[e]) = Len(res.path)
              /\ \A d \in 1..(e - 1) : find(lower(image), Extensions[d]) = 0)
        => res.out = <<res.path, res.arg, res.data>>

-----------------------------------------------------------------------------
(* C32  Feasibility before writing.  A write_file or create_directory that *)
(* fails with DirectoryFull or DiskFull has allocated no cluster and       *)
(* written no sector: the checks for clusters and for a free record are    *)
(* over before the first change of the FAT shadow and the first write.     *)

Infeasible == {"DirectoryFull", "DiskFull"}

\* the sectors the call of the step wrote, in order
SectorsWritten ==
    IF res'.op = "write_file" THEN write_file(Now, res'.path, res'.data).log
    ELSE create_directory(Now, res'.path).log

C32_Feasibility ==
    [][((Called("write_file") \/ Called("create_directory")) /\ res'.err \in Infeasible)
          => (fat_data' = fat_data /\ SectorsWritten = <<>>)]_vars

-----------------------------------------------------------------------------
(* C33  Directory terminator.  In the root directory and in every live     *)
(* subdirectory no live record follows the first 0x00 record, after every  *)
(* sequence of calls on a volume that started that way: read_directory,    *)
(* which stops at the first 0x00 record, misses no live entry.             *)

\* the root directory and the live directories below it
Directories(img, fat) ==
    LET live == LiveEntries(img, fat)
    IN {ROOT} \cup {live[k].e.fc : k \in {j \in 1..Len(live) :
                                            ~live[j].bad /\ is_directory(live[j].e)}}

\* no record after a 0x00 record is in use
Terminated(img, fat, dc) ==
    LET d == DirSectorList(fat, dc)
    IN d.err = "" =>
          \A k \in 1..NumSlots(d.secs) :
              is_end(SlotCell(img, d.secs, k)) =>
                  \A j \in (k + 1)..NumSlots(d.secs) : is_free(SlotCell(img, d.secs, j))

-----------------------------------------------------------------------------
(* C34  CP/M slot safety.  write_file(A) overwrites no directory slot that *)
(* holds a live entry, of any user number, 0 included: after the call      *)
(* every other listed file is still listed, with the same extents, the     *)
(* same size and the same contents.                                        *)

\* the contents of a listed file
ContentsOf(img, f) ==
    LET extents == ExtentsOf(img, f[1], f[2])
        data == ReadBlocks(img, ExtentBlocks(extents))
    IN SubSeq(data, 1, Min(FileSize(extents), Len(data)))

OthersKept(img, after, name) ==
    /\ \A k \in CpmSlots :
          (Listable(SlotEntry(img, k)) /\ SlotEntry(img, k).name # name)
              => SlotEntry(after, k) = SlotEntry(img, k)
    /\ \A f \in list_files(img) :
          f[2] # name =>
              /\ f \in list_files(after)
              /\ ExtentsOf(after, f[1], f[2]) = ExtentsOf(img, f[1], f[2])
              /\ ContentsOf(after, f) = ContentsOf(img, f)

C34_SlotSafety ==
    [][Called("write_file") => OthersKept(image, image', res'.path[1])]_vars

\* what does hold: the same when no live entry of another file has the
\* user number 0
C34_NoUserZero ==
    [][(Called("write_file")
            /\ \A k \in CpmSlots :
                  (Listable(SlotEntry(image, k)) /\ SlotEntry(image, k).name # res'.path[1])
                      => SlotEntry(image, k).b0 # 0)
          => OthersKept(image, image', res'.path[1])]_vars

-----------------------------------------------------------------------------
(* C35  CP/M block exclusivity.  No block, block 0 included, is referenced *)
(* by two live directory entries, and no block that _allocate_blocks       *)
(* returns is referenced by a live entry.                                  *)

\* the blocks a live entry references: the pointers that hold its records,
\* a pointer of value 0 among them being block 0
ReferencedBy(data) ==
    {data.ptr[i] : i \in 1..Min(CPM_BLOCKS_PER_EXTENT,
                                AtLeastOne((data.rc * CPM_RECORD_SIZE + CPM_BLOCK_SIZE - 1)
                                           \div CPM_BLOCK_SIZE))}

LiveEntrySlots(img) == {k \in CpmSlots : Listable(SlotEntry(img, k))}

Exclusive(img, blocks) ==
    /\ \A k, h \in LiveEntrySlots(img) :
          k # h => ReferencedBy(SlotEntry(img, k)) \cap ReferencedBy(SlotEntry(img, h))
                      \cap blocks = {}
    /\ \A count \in 1..CPM_MAX_BLOCKS, k \in LiveEntrySlots(img) :
          Range(_allocate_blocks(img, count).blocks) \cap ReferencedBy(SlotEntry(img, k))
              \cap blocks = {}

C35_BlockExclusivity == Exclusive(image, 0..(CPM_MAX_BLOCKS - 1))

\* what does hold: the same of every block but block 0
C35_ButBlockZero == Exclusive(image, 1..(CPM_MAX_BLOCKS - 1))

-----------------------------------------------------------------------------
(* C36  Allocation inside the shadow.  find_free_cluster and               *)
(* allocate_chain choose only clusters whose entry lies inside the FAT     *)
(* shadow, on every geometry: allocate_chain(n) returns n such clusters or *)
(* raises DiskFull with the shadow unchanged, and never raises DiskError   *)
(* after it linked part of a chain.                                        *)

InsideShadow ==
    /\ find_free_cluster(fat_data) # 0 => InFat(fat_data, find_free_cluster(fat_data))
    /\ Called("allocate_chain") =>
          \/ /\ res'.err = ""
             /\ Len(res'.out) = res'.arg
             /\ \A i \in 1..Len(res'.out) : InFat(fat_data, res'.out[i])
          \/ /\ res'.err = "DiskFull"
             /\ fat_data' = fat_data

C36_InsideShadow == [][InsideShadow]_vars

\* what does hold: the same on a geometry whose FAT has an entry for every
\* cluster
C36_FullFat == [][geo = Geometry(FullFatSectors) => InsideShadow]_vars

-----------------------------------------------------------------------------
(* C37  Read-only shadow.  On a volume opened read-only a mutation that    *)
(* fails leaves the FAT shadow as it was and not dirty, so a later flush() *)
(* or close() returns without raising, and close() releases the handle.    *)

C37_ReadOnlyShadow ==
    [][readonly =>
          /\ (nops' = nops + 1 /\ res'.op \in Mutations /\ res'.err # "")
                => (fat_data' = fat_data /\ ~fat_dirty')
          /\ res'.op \in {"flush", "close"} => res'.err = ""
          /\ res'.op = "close" => _file' = "closed"]_vars

\* what does hold: flush() and close() return on a read-only volume whose
\* shadow is not dirty, and close() releases the handle
C37_CleanShadow ==
    [][(readonly /\ ~fat_dirty /\ res'.op \in {"flush", "close"})
          => (res'.err = "" /\ (res'.op = "close" => _file' = "closed"))]_vars

-----------------------------------------------------------------------------
(* C38  The volume label is no file.  delete_file, delete_directory,       *)
(* set_attributes and rename_entry change the record of the live entry the *)
(* path resolves to and never a volume-label record of the same 11 name    *)
(* bytes: every label record is as before, and after delete_file(p)        *)
(* returned p no longer resolves.                                          *)

EntryCalls == {"delete_file", "delete_directory", "set_attributes", "rename_entry"}

\* the records of the root directory that are volume labels
LabelSlots(img) ==
    {k \in 1..NumSlots(DirSectorList(fat_data, ROOT).secs) :
        /\ ~is_free(SlotCell(img, DirSectorList(fat_data, ROOT).secs, k))
        /\ is_volume_label(SlotCell(img, DirSectorList(fat_data, ROOT).secs, k))}

LabelKept ==
    /\ \A k \in LabelSlots(image) :
          SlotCell(image', DirSectorList(fat_data, ROOT).secs, k)
              = SlotCell(image, DirSectorList(fat_data, ROOT).secs, k)
    /\ (res'.op = "delete_file" /\ res'.err = "")
          => ~resolve_path(image', fat_data', res'.path).has

C38_LabelUntouched ==
    [][(nops' = nops + 1 /\ res'.op \in EntryCalls) => LabelKept]_vars

-----------------------------------------------------------------------------
(* C39  create_directory of a name in use.  When the path names a live     *)
(* directory the call returns and changes nothing: not the FAT shadow, not *)
(* the dirty flag, no sector.  When it names a live regular file the call  *)
(* raises DiskError, and changes nothing either.                           *)

\* resolve_path returns entry = None for a directory and the entry for a
\* regular file
C39_ExistingName ==
    [][(Called("create_directory") /\ resolve_path(image, fat_data, res'.path).err = "")
          => /\ res'.err = IF resolve_path(image, fat_data, res'.path).has
                           THEN "DiskError" ELSE ""
             /\ image' = image
             /\ fat_data' = fat_data
             /\ fat_dirty' = fat_dirty]_vars

\* create_directory returned for a directory that holds a file, which a
\* directory just made does not
C39_Witness ==
    /\ res.op = "create_directory" /\ res.err = ""
    /\ resolve_path(image, fat_data, res.path).err = ""
    /\ ~resolve_path(image, fat_data, res.path).has
    /\ NonDot(read_directory(image, fat_data,
                             resolve_path(image, fat_data, res.path).dir).entries) # <<>>

====
